---- MODULE Spec2Model ----
(***************************************************************************)
(* Resumable harvest and assembly pipeline of PDRbot.                      *)
(*                                                                         *)
(*   SpecFetch   the fetch engine: get_with_retry and download_pdf         *)
(*               (src/pdrbot.py, the same code in src/scraper.py)          *)
(*   Spec        the harvest coordinator of src/scraper.py:                *)
(*               run_full_production over scrape_court_date and the ledger *)
(*   SpecDaily   the daily pass of src/pdrbot.py: resume_daily_scrape      *)
(*   SpecLedger  the work-unit ledger of src/scraper.py under crashes      *)
(*   SpecAsm     the document assembler of src/pdrbot.py                   *)
(*               (process_case_opinions) under crashes                     *)
(*                                                                         *)
(* Every specification starts the other components' variables at one fixed *)
(* value and leaves them unchanged.                                        *)
(***************************************************************************)
EXTENDS Integers, Sequences, FiniteSets, TLC

VARIABLES
    \* ---- fetch engine: one call of get_with_retry or download_pdf
    fFunc,        \* "get" | "download": the function called
    fMax,         \* max_retries of the call
    fAttempt,     \* the loop variable `attempt`
    fPc,          \* "idle" | "loop" | "done"
    fResult,      \* "none" | "response" | "raised" | "None" | "True" | "False"
    fResponses,   \* what session.get produced in this call, in order
    fDelays,      \* the arguments of time.sleep in this call, in order
    fLastExc,     \* last_exception: the failed attempt it was set by, or "none"
    fFile,        \* the file at the target path: "absent" | "empty" | "garbage" | "pdf"
    fWrote,       \* this call wrote the file at the target path
    fAccepted,    \* a later os.path.exists check took the file as already downloaded
    \* ---- scraper: the ledger (self.status, scraper_status.json), the output
    \*      directory and the CSV log
    status,       \* self.status, the ledger in memory
    statusFile,   \* scraper_status.json: absent, corrupt, or the status it holds
    files,        \* output_dir: per work unit, the document of its case
    csvLog,       \* scrape_log.csv: the rows written by log_scrape_result
    \* ---- harvest coordinator: one pass of run_full_production at a time
    cPc,          \* "idle" | "running"
    cMode,        \* "production" | "development": the pass that runs or ran last
    cPass,        \* passes started so far
    cPos,         \* index in UnitOrder of the next loop iteration
    cResume,      \* (resume_date, resume_court)
    cStarted,     \* started_processing
    cVisit,       \* this pass, per unit: "none" | "skipped" | "error" | "fetched"
    cPrevVisit,   \* cVisit at the end of the pass before
    cCalls,       \* get_with_retry and download_pdf calls made in this pass
    cFilesAtStart,   \* files when this pass started
    cLedgerAtStart,  \* statusFile when this pass started
    \* ---- the ledger under crashes: calls of mark_combination_completed
    lPc,          \* "idle" | "open" | "dump": where the running ledger write is
    lCall,        \* "mark" | "start": the caller of the running save_status
    lUnit,        \* the unit of the running mark_combination_completed
    lReturned,    \* units for which mark_combination_completed has returned
    \* ---- PDRBot.process_case_opinions for one case, under crashes
    aLinks,       \* the case's pdf links on the index page, in page order
    aPc,          \* "start" | "download" | "concat" | "cleanup" | "savedb" | "done"
    aSorted,      \* sorted_opinions
    aIdx,         \* position of the download loop in sorted_opinions
    aTempFiles,   \* temp_files
    aTemp,        \* the temp files on disk, by temp_filename
    aFinal,       \* the file at final_filepath
    aDb,          \* TRUE when the opinions table has the case's row
    aRet,         \* return value of the last finished call (-1: none yet)
    aRuns,        \* calls of process_case_opinions started so far
    aCrashed,     \* TRUE once a call was cut short by the process stopping
    aFetched,     \* urls for which download_pdf returned True in this call, in order
    aCalls,       \* calls of download_pdf made by this call
    aWrote,       \* this call wrote, renamed or removed a file in the date folder
    aAtStart,     \* the final file and the table when this call began
    \* ---- one call of get_abbreviation_and_justice
    kFunc,        \* "pdrbot" | "scraper": the class whose method is called
    kDesc,        \* the description, as its words
    kDisp,        \* the disposition, as its words (the scraper takes none)
    kPc,          \* "idle" | "done"
    kResult,      \* the pair returned: [abbrev, justice] ("" for None)
    \* ---- PDRBot.scrape_court_date for one index page with several cases
    uRows,        \* criminal_cases: the case number of each row, in page order
    uPc,          \* "called" | "cases" | "returned"
    uIdx,         \* position of the loop in case_opinions.items()
    uOutcomes,    \* [case, kind] of every process_case_opinions call, in call order
    uCount,       \* downloaded_count
    uRet,         \* the pair returned: [cases, files] (-1, -1: none yet)
    \* ---- the loops of run_full_production over a range of several dates
    eLast,        \* (last_completed_date, last_completed_court) of the status loaded
    eEnd,         \* end_date, as a day number (start_date is day 1)
    eResume,      \* (resume_date, resume_court)
    eStarted,     \* started_processing
    ePc,          \* "dates" | "courts" | "done"
    eDate,        \* current of generate_date_range
    eCourt,       \* position of the inner loop in courts
    eTrace,       \* the units passed to scrape_court_date, in call order
    \* ---- the daily run of PDRBot: run_daily_automation, resume_incomplete_run
    rExists,      \* a row of daily_runs exists for the target date
    rStatus,      \* daily_runs.status of that row ("none" while there is no row)
    rError,       \* daily_runs.error_message of that row ("" for NULL)
    rTable,       \* the rows of the opinions table
    rAnalyzed,    \* the rows of the opinions table that have an analysis record
    rReportFiles, \* report files of the target date in data_dir, by suffix (0: none)
    rAnalysisOn,  \* self.analysis_enabled
    rClient,      \* self.claude_client is set
    rEmailOn,     \* self.email_enabled
    rPc,          \* position of the running call ("idle": no call is running)
    rCall,        \* "none" | "fresh" | "resume": the running or last call
    rFrom,        \* state['status'] read by resume_incomplete_run
    rRet,         \* "-" | "True" | "False" | "None" | "crashed": how the last call ended
    rCalls,       \* calls started so far
    rTrail,       \* the statuses this call has persisted, in order
    rWorks,       \* the phases whose work this call has started, in order
    rFailed,      \* the phase whose work failed in this call ("none")
    rReportOut,   \* "-" | "path" | "none": what generate_daily_report returned
    rExpected,    \* the opinions of the target date without an analysis record, as
                  \* they were when this call counted them
    rHanded,      \* the opinions run_analysis_batch handed to the analysis
    rColumn,      \* the opinions table has a column consolidated_with
    rQuery,       \* "-" | "rows" | "OperationalError": how the call's query of
                  \* get_unanalyzed_opinions_for_date ended
    rLeft,        \* status of the row a crash left behind and the last
                  \* run_daily_automation passed over to insert a new row ("none")
    \* ---- the counters of the run's row during resume_daily_scrape
    dRow,         \* total_courts_checked, total_cases_found, total_files_downloaded
    dLocal,       \* the locals total_cases and total_downloaded
    dHigh,        \* the highest value each counter of the row has held
    dCut          \* TRUE when the process stopped inside the last resume_daily_scrape

fetchVars == <<fFunc, fMax, fAttempt, fPc, fResult, fResponses, fDelays,
               fLastExc, fFile, fWrote, fAccepted>>

ledgerVars == <<status, statusFile, files, csvLog>>

coordVars == <<cPc, cMode, cPass, cPos, cResume, cStarted, cVisit, cPrevVisit, cCalls,
               cFilesAtStart, cLedgerAtStart>>

crashVars == <<lPc, lCall, lUnit, lReturned>>

asmVars == <<aLinks, aPc, aSorted, aIdx, aTempFiles, aTemp, aFinal, aDb, aRet,
             aRuns, aCrashed, aFetched, aCalls, aWrote, aAtStart>>

classVars == <<kFunc, kDesc, kDisp, kPc, kResult>>

unitVars == <<uRows, uPc, uIdx, uOutcomes, uCount, uRet>>

enumVars == <<eLast, eEnd, eResume, eStarted, ePc, eDate, eCourt, eTrace>>

runVars == <<rExists, rStatus, rError, rTable, rAnalyzed, rReportFiles, rAnalysisOn,
             rClient, rEmailOn, rPc, rCall, rFrom, rRet, rCalls, rTrail, rWorks,
             rFailed, rReportOut, rExpected, rHanded, rColumn, rQuery, rLeft>>

rowVars == <<dRow, dLocal, dHigh, dCut>>

\* the analysis batch of PDRBot (src/pdrbot.py)
VARIABLES
    bOpinions,        \* ids of the rows of the table opinions
    bAnalysis,        \* rows of the table analysis: [id, opinion_id]
    bNextRow,         \* the AUTOINCREMENT id the next row of analysis gets
    bEnabled,         \* analysis_enabled and claude_client
    bPc,              \* "idle", or "loop" inside run_analysis_batch
    bLimit,           \* limit of the call (0: None)
    bQuery,           \* what get_unanalyzed_opinions returned to the call
    bBatch,           \* unanalyzed, after the slice
    bPos,             \* position of the for loop in unanalyzed
    bHanded,          \* history: the opinions handed to process_opinion_analysis by the call
    bFailed,          \* history: opinions whose last analysis left no record
    bRecordedAtStart, \* history: opinions with a record when the call began
    bFailedAtStart,   \* history: bFailed when the call began
    bBatches          \* calls of run_analysis_batch so far

batchVars == <<bOpinions, bAnalysis, bNextRow, bEnabled, bPc, bLimit, bQuery, bBatch, bPos,
               bHanded, bFailed, bRecordedAtStart, bFailedAtStart, bBatches>>

vars == <<fetchVars, ledgerVars, coordVars, crashVars, asmVars, classVars, unitVars,
          enumVars, runVars, rowVars, batchVars>>

(***************************************************************************)
(* Bounds of the model.                                                    *)
(***************************************************************************)
\* the largest max_retries a call is made with (the default is 3)
MaxBudget == 3
\* days from start_date (2025-01-01) to end_date (now), both included
NumDays == 1
\* Coordinator passes (runs of run_full_production) in one behaviour
MaxPasses == 2
\* pdf links one case has on an index page, at most
MaxFrags == 3
\* calls of process_case_opinions for the case in one behaviour
MaxRuns == 2
\* the largest number of rows of an index page, and of case numbers on it
MaxCases == 3
\* the longest range of dates the loops of run_full_production are stepped over
MaxEnumDays == 6
\* calls of run_daily_automation and resume_incomplete_run in one behaviour
MaxCalls == 2
\* rows the table opinions comes to hold in one behaviour
MaxOpinions == 2
\* calls of run_analysis_batch in one behaviour
MaxBatches == 2

(***************************************************************************)
(* FETCH ENGINE                                                            *)
(***************************************************************************)

\* What one session.get followed by raise_for_status can produce: a transport
\* failure (connection error, timeout), a non-2xx status, or a 2xx response
\* with a declared content-type and a body.
Responses ==
    {[net |-> n, ctype |-> "none", body |-> "none"] : n \in {"conn_error", "http_error"}}
    \cup
    {[net |-> "ok", ctype |-> c, body |-> b] :
        c \in {"application/pdf", "text/html"}, b \in {"pdf", "garbage", "empty"}}

\* response.raise_for_status() passed
StatusOk(r) == r.net = "ok"

\* response.headers.get('content-type', '').lower() == 'application/pdf'
IsPdfContentType(r) == r.ctype = "application/pdf"

\* os.path.exists(filepath) and os.path.getsize(filepath) > 0
FileHasContent(file) == file \notin {"absent", "empty"}

HasPdfMagicAlways(file) == TRUE

\* header.startswith(b'%PDF')
HasPdfMagic(file) == file = "pdf"

BackoffFixed(attempt) == 1

\* wait_time = 2 ** attempt
Backoff(attempt) == 2 ^ attempt

\* `if attempt < max_retries - 1`: sleep and retry, else give up
MayRetry(attempt, max) == attempt < max - 1

\* `if attempt == max_retries - 1` of the content-type branch
LastAttempt(attempt, max) == attempt = max - 1

\* The class of the exception an attempt raises inside the try block:
\* session.get and raise_for_status raise requests exceptions, the
\* validation raises a plain Exception.
RaisedBy(r, file) ==
    IF ~StatusOk(r) THEN "RequestException"
    ELSE IF ~FileHasContent(file) \/ ~HasPdfMagic(file) THEN "Exception"
    ELSE "none"

\* download_pdf: except (RequestException, Timeout, ConnectionError, Exception)
DownloadCatches(exc) == exc \in {"RequestException", "Exception"}

\* get_with_retry: except (RequestException, Timeout, ConnectionError)
GetCatches(exc) == exc = "RequestException"

\* what the steps of one component leave alone
FetchOnly == UNCHANGED <<ledgerVars, coordVars, crashVars, asmVars, classVars, unitVars,
    enumVars, runVars, rowVars, batchVars>>

CoordOnly == UNCHANGED <<fetchVars, crashVars, asmVars, classVars, unitVars,
    enumVars, runVars, rowVars, batchVars>>

DailyOnly == UNCHANGED <<fetchVars, crashVars, asmVars, classVars, unitVars,
    enumVars, runVars, batchVars>>

LedgerOnly == UNCHANGED <<fetchVars, coordVars, files, csvLog, asmVars, classVars, unitVars,
    enumVars, runVars, rowVars, batchVars>>

AsmOnly == UNCHANGED <<fetchVars, ledgerVars, coordVars, crashVars, classVars, unitVars,
    enumVars, runVars, rowVars, batchVars>>

ClassOnly == UNCHANGED <<fetchVars, ledgerVars, coordVars, crashVars, asmVars, unitVars,
    enumVars, runVars, rowVars, batchVars>>

EnumOnly == UNCHANGED <<fetchVars, ledgerVars, coordVars, crashVars, asmVars, classVars,
    unitVars, runVars, rowVars, batchVars>>

RunOnly == UNCHANGED <<fetchVars, ledgerVars, coordVars, crashVars, asmVars, classVars,
    unitVars, enumVars, rowVars, batchVars>>

UnitOnly == UNCHANGED <<fetchVars, ledgerVars, coordVars, crashVars, asmVars, classVars,
    enumVars, runVars, rowVars, batchVars>>

BatchOnly == UNCHANGED <<fetchVars, ledgerVars, coordVars, crashVars, asmVars, classVars,
    unitVars, enumVars, runVars, rowVars>>

FetchInit ==
    /\ fFunc = "get"
    /\ fMax = 0
    /\ fAttempt = 0
    /\ fPc = "idle"
    /\ fResult = "none"
    /\ fResponses = <<>>
    /\ fDelays = <<>>
    /\ fLastExc = "none"
    /\ fFile = "absent"
    /\ fWrote = FALSE
    /\ fAccepted = FALSE

\* A call get_with_retry(url, max_retries) or download_pdf(url, path, max_retries).
\* The file at the path is whatever earlier calls left there.
FetchCall ==
    /\ FetchOnly
    /\ fPc \in {"idle", "done"}
    /\ \E f \in {"get", "download"}, m \in 0..MaxBudget :
        /\ fFunc' = f
        /\ fMax' = m
    /\ fAttempt' = 0
    /\ fPc' = "loop"
    /\ fResult' = "none"
    /\ fResponses' = <<>>
    /\ fDelays' = <<>>
    /\ fLastExc' = "none"
    /\ fWrote' = FALSE
    /\ fAccepted' = FALSE
    /\ UNCHANGED fFile

\* One iteration of get_with_retry's loop.
GetAttempt ==
    /\ FetchOnly
    /\ fPc = "loop"
    /\ fFunc = "get"
    /\ fAttempt < fMax
    /\ \E r \in Responses :
        /\ fResponses' = Append(fResponses, r)
        /\ fLastExc' = IF StatusOk(r) \/ ~GetCatches("RequestException")
                       THEN fLastExc ELSE r
        /\ IF StatusOk(r)
           THEN /\ fResult' = "response"
                /\ fPc' = "done"
                /\ UNCHANGED <<fAttempt, fDelays>>
           ELSE IF GetCatches("RequestException") /\ MayRetry(fAttempt, fMax)
           THEN /\ fDelays' = Append(fDelays, Backoff(fAttempt))
                /\ fAttempt' = fAttempt + 1
                /\ UNCHANGED <<fResult, fPc>>
           ELSE /\ fResult' = "raised"
                /\ fPc' = "done"
                /\ UNCHANGED <<fAttempt, fDelays>>
    /\ UNCHANGED <<fFunc, fMax, fFile, fWrote, fAccepted>>

\* get_with_retry's loop ended without a return or a raise: the function
\* falls off its end and returns None.
GetFallOff ==
    /\ FetchOnly
    /\ fPc = "loop"
    /\ fFunc = "get"
    /\ fAttempt >= fMax
    /\ fResult' = "None"
    /\ fPc' = "done"
    /\ UNCHANGED <<fFunc, fMax, fAttempt, fResponses, fDelays, fLastExc, fFile, fWrote, fAccepted>>

\* One iteration of download_pdf's loop: the request, the content-type check,
\* the write to the target path, the size and magic-byte checks, the handler.
DownloadAttempt ==
    /\ FetchOnly
    /\ fPc = "loop"
    /\ fFunc = "download"
    /\ fAttempt < fMax
    /\ \E r \in Responses :
        LET mismatch == StatusOk(r) /\ ~IsPdfContentType(r)
            written  == StatusOk(r) /\ IsPdfContentType(r)
            file     == IF written THEN r.body ELSE fFile
            exc      == IF mismatch THEN "none" ELSE RaisedBy(r, file)
        IN
        /\ fResponses' = Append(fResponses, r)
        /\ fFile' = file
        /\ fWrote' = (fWrote \/ written)
        /\ fLastExc' = IF exc # "none" /\ DownloadCatches(exc) THEN r ELSE fLastExc
        /\ IF mismatch
           THEN IF LastAttempt(fAttempt, fMax)
                THEN /\ fResult' = "False"
                     /\ fPc' = "done"
                     /\ UNCHANGED <<fAttempt, fDelays>>
                ELSE /\ fDelays' = Append(fDelays, Backoff(fAttempt))
                     /\ fAttempt' = fAttempt + 1
                     /\ UNCHANGED <<fResult, fPc>>
           ELSE IF exc = "none"
           THEN /\ fResult' = "True"
                /\ fPc' = "done"
                /\ UNCHANGED <<fAttempt, fDelays>>
           ELSE IF ~DownloadCatches(exc)
           THEN /\ fResult' = "raised"
                /\ fPc' = "done"
                /\ UNCHANGED <<fAttempt, fDelays>>
           ELSE /\ fDelays' = IF MayRetry(fAttempt, fMax)
                              THEN Append(fDelays, Backoff(fAttempt))
                              ELSE fDelays
                /\ fAttempt' = fAttempt + 1
                /\ UNCHANGED <<fResult, fPc>>
    /\ UNCHANGED <<fFunc, fMax, fAccepted>>

\* download_pdf's loop ended: the final `return False`.
DownloadFallOff ==
    /\ FetchOnly
    /\ fPc = "loop"
    /\ fFunc = "download"
    /\ fAttempt >= fMax
    /\ fResult' = "False"
    /\ fPc' = "done"
    /\ UNCHANGED <<fFunc, fMax, fAttempt, fResponses, fDelays, fLastExc, fFile, fWrote, fAccepted>>

\* A later pass of the scraper over the same file name: scrape_court_date
\* skips the download when os.path.exists(filepath).
LaterExistsCheck ==
    /\ FetchOnly
    /\ fPc = "done"
    /\ fFunc = "download"
    /\ fFile # "absent"
    /\ ~fAccepted
    /\ fAccepted' = TRUE
    /\ UNCHANGED <<fFunc, fMax, fAttempt, fPc, fResult, fResponses, fDelays, fLastExc, fFile, fWrote>>

FetchStep == GetAttempt \/ GetFallOff \/ DownloadAttempt \/ DownloadFallOff

FetchNext == FetchCall \/ FetchStep \/ LaterExistsCheck


(***************************************************************************)
(* WORK-UNIT LEDGER (src/scraper.py)                                       *)
(***************************************************************************)

\* courts = list(range(1, 15)): the model runs with 2 courts in place of 14
NumCourts == 2

\* `if last_court < 14`: the literal is the number of courts
ResumeLastCourt == NumCourts

Days == 1..NumDays
Courts == 1..NumCourts
Units == [date : Days, court : Courts]

None == 0

\* date.weekday() of day d (Monday = 0); day 1 is 2025-01-01, a Wednesday
Weekday(d) == (d + 1) % 7

IsWeekend(d) == Weekday(d) >= 5

\* generate_date_range(start_date, end_date): the weekdays, ascending
WorkDays == {d \in Days : ~IsWeekend(d)}

NthWorkDay(n) == CHOOSE d \in WorkDays : Cardinality({e \in WorkDays : e <= d}) = n

\* `for date in generate_date_range(...): for coa_num in courts:`
UnitOrder ==
    [i \in 1..(Cardinality(WorkDays) * NumCourts) |->
        [date  |-> NthWorkDay(((i - 1) \div NumCourts) + 1),
         court |-> ((i - 1) % NumCourts) + 1]]

\* f"{date.strftime('%Y-%m-%d')}_COA{court:02d}"
ComboStr(court, date) == <<date, "_COA", court>>

Range(seq) == {seq[i] : i \in 1..Len(seq)}

\* the status load_status returns when there is no readable status file
DefaultStatus ==
    [last_completed_date    |-> None,
     last_completed_court   |-> None,
     start_time             |-> None,
     completed_combinations |-> <<>>]

\* scraper_status.json: no file, a file json.load cannot parse, or a file
\* holding a status
NoFile == [state |-> "absent", content |-> DefaultStatus]

CorruptFile == [state |-> "corrupt", content |-> DefaultStatus]

FileWith(st) == [state |-> "ok", content |-> st]

\* load_status: json.load of the file; a missing or unparsable file gives
\* the default status
load_status(file) ==
    IF file.state = "ok" THEN file.content ELSE DefaultStatus

is_combination_completed(st, court, date) ==
    ComboStr(court, date) \in Range(st.completed_combinations)

\* mark_combination_completed, the change of self.status (save_status is the
\* caller's next step)
mark_combination_completed(st, court, date) ==
    IF ComboStr(court, date) \notin Range(st.completed_combinations)
    THEN [st EXCEPT !.completed_combinations = Append(@, ComboStr(court, date)),
                    !.last_completed_date = date,
                    !.last_completed_court = court]
    ELSE st

\* save_status as one step: the file holds the status
save_status(st) == FileWith(st)

LedgerInit ==
    /\ status = DefaultStatus
    /\ statusFile = NoFile
    /\ files = [u \in Units |-> "absent"]
    /\ csvLog = {}

(***************************************************************************)
(* HARVEST COORDINATOR (src/scraper.py)                                    *)
(***************************************************************************)

NextWeekday(d) == CHOOSE e \in d..(d + 2) : ~IsWeekend(e) /\ \A x \in d..(e - 1) : IsWeekend(x)

\* a resume point that is the recorded unit itself
ResumePointAtLastUnit(st) ==
    IF st.last_completed_date = None
    THEN [date |-> 1, court |-> 1]
    ELSE [date |-> st.last_completed_date, court |-> st.last_completed_court]

\* run_full_production, "Calculate resume point"
ResumePoint(st) ==
    IF st.last_completed_date = None
    THEN [date |-> 1, court |-> 1]
    ELSE IF st.last_completed_court < ResumeLastCourt
    THEN [date |-> st.last_completed_date, court |-> st.last_completed_court + 1]
    ELSE [date |-> NextWeekday(st.last_completed_date + 1), court |-> 1]

\* `date < resume_date or (date == resume_date and coa_num < resume_court)`
BeforeResume(u, rp) ==
    u.date < rp.date \/ (u.date = rp.date /\ u.court < rp.court)

\* What the index page of a unit lists: no criminal case, or one case with
\* one document.
DocketSizes == {0, 1}

\* What download_pdf leaves behind for a path that held no file: True with
\* the validated file, False with nothing written, False with the rejected
\* bytes still at the path.
DownloadOutcomes ==
    {[ok |-> TRUE, file |-> "pdf"], [ok |-> FALSE, file |-> "absent"],
     [ok |-> FALSE, file |-> "invalid"]}

LogRow(u, cases, n, st) == [unit |-> u, cases |-> cases, files |-> n, status |-> st]

LedgerAfterAlwaysMarks(st, u, outcome) == mark_combination_completed(st, u.court, u.date)

\* scrape_court_date: the ledger after a harvest that was logged with the
\* status `outcome`; the except branch marks nothing
LedgerAfter(st, u, outcome) ==
    IF outcome \in {"no_cases", "completed"}
    THEN mark_combination_completed(st, u.court, u.date)
    ELSE st

CoordInit ==
    /\ cPc = "idle"
    /\ cMode = "production"
    /\ cPass = 0
    /\ cPos = 1
    /\ cResume = [date |-> 1, court |-> 1]
    /\ cStarted = FALSE
    /\ cVisit = [u \in Units |-> "none"]
    /\ cPrevVisit = [u \in Units |-> "none"]
    /\ cCalls = 0
    /\ cFilesAtStart = [u \in Units |-> "absent"]
    /\ cLedgerAtStart = NoFile

\* the row of daily_runs as INSERT leaves it (DEFAULT 0), no call yet
NoCounts == [courts |-> 0, cases |-> 0, files |-> 0]

RowInit ==
    /\ dRow = NoCounts
    /\ dLocal = [cases |-> 0, files |-> 0]
    /\ dHigh = NoCounts
    /\ dCut = FALSE

\* run_development_test: courts = [1, 2]
DevCourts == 2

\* run_development_test: end_date = datetime(2025, 1, 31)
DevLastDay == 31

DevDays == {d \in WorkDays : d <= DevLastDay}

NthDevDay(n) == CHOOSE d \in DevDays : Cardinality({e \in DevDays : e <= d}) = n

\* the loops of run_development_test
DevOrder ==
    [i \in 1..(Cardinality(DevDays) * DevCourts) |->
        [date  |-> NthDevDay(((i - 1) \div DevCourts) + 1),
         court |-> ((i - 1) % DevCourts) + 1]]

CurOrder == IF cMode = "development" THEN DevOrder ELSE UnitOrder

CurUnit == CurOrder[cPos]

\* main(): COAOpinionScraper() loads the status, then run_full_production
\* sets start_time once and computes the resume point.
StartPass ==
    /\ CoordOnly
    /\ cPc = "idle"
    /\ cPass < MaxPasses
    /\ LET loaded == load_status(statusFile)
           st     == IF loaded.start_time = None
                     THEN [loaded EXCEPT !.start_time = 1] ELSE loaded
       IN /\ status' = st
          /\ statusFile' = IF loaded.start_time = None THEN save_status(st) ELSE statusFile
          /\ cResume' = ResumePoint(st)
    /\ cPc' = "running"
    /\ cMode' = "production"
    /\ cPass' = cPass + 1
    /\ cPos' = 1
    /\ cStarted' = FALSE
    /\ cPrevVisit' = cVisit
    /\ cVisit' = [u \in Units |-> "none"]
    /\ cCalls' = 0
    /\ cFilesAtStart' = files
    /\ cLedgerAtStart' = statusFile
    /\ UNCHANGED <<files, csvLog>>

\* COAOpinionScraper() loads the status, then run_development_test visits
\* every unit of its range, with no resume point.
StartDevPass ==
    /\ CoordOnly
    /\ cPc = "idle"
    /\ cPass < MaxPasses
    /\ status' = load_status(statusFile)
    /\ cPc' = "running"
    /\ cMode' = "development"
    /\ cPass' = cPass + 1
    /\ cPos' = 1
    /\ cStarted' = TRUE
    /\ cPrevVisit' = cVisit
    /\ cVisit' = [u \in Units |-> "none"]
    /\ cCalls' = 0
    /\ cFilesAtStart' = files
    /\ cLedgerAtStart' = statusFile
    /\ UNCHANGED <<statusFile, files, csvLog, cResume>>

InLoop == cPc = "running" /\ cPos <= Len(CurOrder)

\* the loop's `continue` before the resume point
SkipBeforeResume ==
    /\ CoordOnly
    /\ InLoop
    /\ ~cStarted
    /\ BeforeResume(CurUnit, cResume)
    /\ cVisit' = [cVisit EXCEPT ![CurUnit] = "skipped"]
    /\ cPos' = cPos + 1
    /\ UNCHANGED <<ledgerVars, cPc, cMode, cPass, cResume, cStarted, cPrevVisit, cCalls,
                   cFilesAtStart, cLedgerAtStart>>

Scraping == InLoop /\ (cStarted \/ ~BeforeResume(CurUnit, cResume))

\* scrape_court_date: "already completed", return 0
ScrapeAlreadyCompleted ==
    /\ CoordOnly
    /\ Scraping
    /\ is_combination_completed(status, CurUnit.court, CurUnit.date)
    /\ cVisit' = [cVisit EXCEPT ![CurUnit] = "skipped"]
    /\ cStarted' = TRUE
    /\ cPos' = cPos + 1
    /\ UNCHANGED <<ledgerVars, cPc, cMode, cPass, cResume, cPrevVisit, cCalls,
                   cFilesAtStart, cLedgerAtStart>>

\* What can go wrong inside the try block of scrape_court_date:
\* get_with_retry raises the last RequestException; response is None or the
\* page does not parse (AttributeError); a file or folder cannot be written
\* (OSError).
HarvestFailures == {"RequestException", "AttributeError", "OSError"}

ScrapeCatchesRequestsOnly(exc) == exc = "RequestException"

\* scrape_court_date: except Exception as e
ScrapeCatches(exc) == exc \in {"RequestException", "AttributeError", "OSError", "Exception"}

\* scrape_court_date: the try block raised; the except branch logs the error
\* and returns 0, and the loop of run_full_production goes on.  An exception
\* the except clause does not catch leaves scrape_court_date and the loops,
\* which have no handler of their own.
ScrapeIndexError ==
    /\ CoordOnly
    /\ Scraping
    /\ ~is_combination_completed(status, CurUnit.court, CurUnit.date)
    /\ \E exc \in HarvestFailures :
        IF ScrapeCatches(exc)
        THEN /\ csvLog' = csvLog \cup {LogRow(CurUnit, 0, 0, "error")}
             /\ status' = LedgerAfter(status, CurUnit, "error")
             /\ statusFile' = IF status' # status THEN save_status(status') ELSE statusFile
             /\ cVisit' = [cVisit EXCEPT ![CurUnit] = "error"]
             /\ cStarted' = TRUE
             /\ cPos' = cPos + 1
             /\ UNCHANGED cPc
        ELSE /\ cPc' = "aborted"
             /\ UNCHANGED <<ledgerVars, cVisit, cStarted, cPos>>
    /\ cCalls' = cCalls + 1
    /\ UNCHANGED <<files, cMode, cPass, cResume, cPrevVisit, cFilesAtStart, cLedgerAtStart>>

\* scrape_court_date: the page lists no criminal case
ScrapeNoCases ==
    /\ CoordOnly
    /\ Scraping
    /\ ~is_combination_completed(status, CurUnit.court, CurUnit.date)
    /\ 0 \in DocketSizes
    /\ csvLog' = csvLog \cup {LogRow(CurUnit, 0, 0, "no_cases")}
    /\ status' = LedgerAfter(status, CurUnit, "no_cases")
    /\ statusFile' = IF status' # status THEN save_status(status') ELSE statusFile
    /\ cVisit' = [cVisit EXCEPT ![CurUnit] = "fetched"]
    /\ cCalls' = cCalls + 1
    /\ cStarted' = TRUE
    /\ cPos' = cPos + 1
    /\ UNCHANGED <<files, cPc, cMode, cPass, cResume, cPrevVisit, cFilesAtStart, cLedgerAtStart>>

\* scrape_court_date: the page lists a case; its document is downloaded
\* unless a file of its name exists; the unit is logged and marked completed
ScrapeCases ==
    /\ CoordOnly
    /\ Scraping
    /\ ~is_combination_completed(status, CurUnit.court, CurUnit.date)
    /\ 1 \in DocketSizes
    /\ \E o \in DownloadOutcomes :
        LET exists == files[CurUnit] # "absent"
            n      == IF ~exists /\ o.ok THEN 1 ELSE 0
        IN
        /\ files' = IF exists THEN files ELSE [files EXCEPT ![CurUnit] = o.file]
        /\ cCalls' = cCalls + (IF exists THEN 1 ELSE 2)
        /\ csvLog' = csvLog \cup {LogRow(CurUnit, 1, n, "completed")}
    /\ status' = LedgerAfter(status, CurUnit, "completed")
    /\ statusFile' = IF status' # status THEN save_status(status') ELSE statusFile
    /\ cVisit' = [cVisit EXCEPT ![CurUnit] = "fetched"]
    /\ cStarted' = TRUE
    /\ cPos' = cPos + 1
    /\ UNCHANGED <<cPc, cMode, cPass, cResume, cPrevVisit, cFilesAtStart, cLedgerAtStart>>

\* the loops are exhausted: run_full_production returns
EndPass ==
    /\ CoordOnly
    /\ cPc = "running"
    /\ cPos > Len(CurOrder)
    /\ cPc' = "idle"
    /\ UNCHANGED <<ledgerVars, cMode, cPass, cPos, cResume, cStarted, cVisit, cPrevVisit,
                   cCalls, cFilesAtStart, cLedgerAtStart>>

CoordNext ==
    \/ StartPass
    \/ StartDevPass
    \/ SkipBeforeResume
    \/ ScrapeAlreadyCompleted
    \/ ScrapeIndexError
    \/ ScrapeNoCases
    \/ ScrapeCases
    \/ EndPass

(***************************************************************************)
(* THE DAILY PASS OF PDRBot (src/pdrbot.py)                                *)
(* resume_daily_scrape visits every court for the target date and calls    *)
(* scrape_court_date, which consults no ledger; process_case_opinions      *)
(* skips a case whose final file exists.  `files` holds the final file of  *)
(* the unit's case.                                                        *)
(***************************************************************************)

\* the target date of the daily passes: the first work day of the range
TargetDate == CHOOSE d \in WorkDays : \A e \in WorkDays : d <= e

\* for coa_num in range(1, 15)
DailyOrder == [i \in 1..NumCourts |-> [date |-> TargetDate, court |-> i]]

\* the highest values the counters of the row have held
HighOf(high, row) ==
    [courts |-> IF row.courts > high.courts THEN row.courts ELSE high.courts,
     cases  |-> IF row.cases > high.cases THEN row.cases ELSE high.cases,
     files  |-> IF row.files > high.files THEN row.files ELSE high.files]

\* one pass of the loop body of resume_daily_scrape: courts_checked += 1 and
\* update_run_state(run_id, courts_checked=courts_checked); after
\* scrape_court_date returned (cases_found, files_downloaded), the totals
\* are added up and update_run_state(run_id, cases_found=total_cases,
\* files_downloaded=total_downloaded)
CountCourt(cases_found, files_downloaded) ==
    LET totals == [cases |-> dLocal.cases + cases_found,
                   files |-> dLocal.files + files_downloaded]
        row    == [courts |-> cPos, cases |-> totals.cases, files |-> totals.files]
    IN /\ dLocal' = totals
       /\ dRow' = row
       /\ dHigh' = HighOf(HighOf(dHigh, [dRow EXCEPT !.courts = cPos]), row)
       /\ UNCHANGED dCut

\* resume_daily_scrape(run_id, target_date) begins: courts_checked,
\* total_cases and total_downloaded start at 0.  The run is the one whose
\* harvest was cut short (run_daily_automation finds its row at 'scraping' and
\* resumes it), else a new row, inserted with its counters at 0.
StartDailyPass ==
    /\ DailyOnly
    /\ cPc = "idle"
    /\ cPass < MaxPasses
    /\ cPc' = "daily"
    /\ cMode' = "daily"
    /\ cPass' = cPass + 1
    /\ cPos' = 1
    /\ cStarted' = TRUE
    /\ cPrevVisit' = cVisit
    /\ cVisit' = [u \in Units |-> "none"]
    /\ cCalls' = 0
    /\ cFilesAtStart' = files
    /\ cLedgerAtStart' = statusFile
    /\ dLocal' = [cases |-> 0, files |-> 0]
    /\ dRow' = IF dCut THEN dRow ELSE NoCounts
    /\ dHigh' = IF dCut THEN dHigh ELSE NoCounts
    /\ dCut' = FALSE
    /\ UNCHANGED <<ledgerVars, cResume>>

InDailyLoop == cPc = "daily" /\ cPos <= Len(DailyOrder)

DailyUnit == DailyOrder[cPos]

\* PDRBot.scrape_court_date: the try block raised; except Exception returns
\* 0, 0 and resume_daily_scrape goes on with the next court
DailyIndexError ==
    /\ DailyOnly
    /\ InDailyLoop
    /\ \E exc \in HarvestFailures :
        IF ScrapeCatches(exc)
        THEN /\ cVisit' = [cVisit EXCEPT ![DailyUnit] = "error"]
             /\ cPos' = cPos + 1
             /\ CountCourt(0, 0)
             /\ UNCHANGED cPc
        ELSE /\ cPc' = "aborted"
             /\ UNCHANGED <<cVisit, cPos, rowVars>>
    /\ cCalls' = cCalls + 1
    /\ UNCHANGED <<ledgerVars, cMode, cPass, cResume, cStarted, cPrevVisit,
                   cFilesAtStart, cLedgerAtStart>>

\* PDRBot.scrape_court_date: the page lists no criminal case; return 0, 0
DailyNoCases ==
    /\ DailyOnly
    /\ InDailyLoop
    /\ 0 \in DocketSizes
    /\ cVisit' = [cVisit EXCEPT ![DailyUnit] = "fetched"]
    /\ cCalls' = cCalls + 1
    /\ cPos' = cPos + 1
    /\ CountCourt(0, 0)
    /\ UNCHANGED <<ledgerVars, cPc, cMode, cPass, cResume, cStarted, cPrevVisit,
                   cFilesAtStart, cLedgerAtStart>>

\* PDRBot.scrape_court_date: the page lists a case; process_case_opinions
\* returns 0 when its final file exists, else downloads the opinion to a
\* temp file and renames it to the final file when download_pdf succeeded;
\* scrape_court_date returns (1, downloaded_count)
DailyCases ==
    /\ DailyOnly
    /\ InDailyLoop
    /\ 1 \in DocketSizes
    /\ \E o \in DownloadOutcomes :
        LET exists == files[DailyUnit] # "absent" IN
        /\ files' = IF ~exists /\ o.ok THEN [files EXCEPT ![DailyUnit] = "pdf"] ELSE files
        /\ cCalls' = cCalls + (IF exists THEN 1 ELSE 2)
        /\ CountCourt(1, IF ~exists /\ o.ok THEN 1 ELSE 0)
    /\ cVisit' = [cVisit EXCEPT ![DailyUnit] = "fetched"]
    /\ cPos' = cPos + 1
    /\ UNCHANGED <<status, statusFile, csvLog, cPc, cMode, cPass, cResume, cStarted,
                   cPrevVisit, cFilesAtStart, cLedgerAtStart>>

\* the loop over the courts is exhausted: the final update_run_state writes
\* 'scrape_completed' and the three counters, and resume_daily_scrape returns
EndDailyPass ==
    /\ DailyOnly
    /\ cPc = "daily"
    /\ cPos > Len(DailyOrder)
    /\ cPc' = "idle"
    /\ dRow' = [courts |-> cPos - 1, cases |-> dLocal.cases, files |-> dLocal.files]
    /\ dHigh' = HighOf(dHigh, dRow')
    /\ UNCHANGED <<ledgerVars, cMode, cPass, cPos, cResume, cStarted, cVisit, cPrevVisit,
                   cCalls, cFilesAtStart, cLedgerAtStart, dLocal, dCut>>

\* The process stops inside resume_daily_scrape: the row stays at 'scraping'
\* with the counters last written.
DailyCrash ==
    /\ DailyOnly
    /\ cPc = "daily"
    /\ cPc' = "idle"
    /\ dCut' = TRUE
    /\ UNCHANGED <<ledgerVars, cMode, cPass, cPos, cResume, cStarted, cVisit, cPrevVisit,
                   cCalls, cFilesAtStart, cLedgerAtStart, dRow, dLocal, dHigh>>

DailyNext ==
    \/ StartDailyPass
    \/ DailyIndexError
    \/ DailyNoCases
    \/ DailyCases
    \/ EndDailyPass
    \/ DailyCrash

(***************************************************************************)
(* THE LEDGER UNDER CRASHES (src/scraper.py)                               *)
(* save_status in its two steps, open(status_file, 'w') and json.dump, and *)
(* the process stopping at any point and starting again.                   *)
(***************************************************************************)

CrashInit ==
    /\ lPc = "idle"
    /\ lCall = "mark"
    /\ lUnit = [date |-> 1, court |-> 1]
    /\ lReturned = {}

\* scrape_court_date calls mark_combination_completed for a unit it found
\* not completed: the status changes in memory, save_status follows
LMarkCall ==
    /\ LedgerOnly
    /\ lPc = "idle"
    /\ \E u \in Units :
        /\ ~is_combination_completed(status, u.court, u.date)
        /\ status' = mark_combination_completed(status, u.court, u.date)
        /\ lUnit' = u
    /\ lPc' = "open"
    /\ lCall' = "mark"
    /\ UNCHANGED <<statusFile, lReturned>>

\* run_full_production: a status without start_time gets one and is saved
LStartRun ==
    /\ LedgerOnly
    /\ lPc = "idle"
    /\ status.start_time = None
    /\ status' = [status EXCEPT !.start_time = 1]
    /\ lPc' = "open"
    /\ lCall' = "start"
    /\ UNCHANGED <<statusFile, lUnit, lReturned>>

\* The units whose mark_combination_completed has returned, once the
\* running save_status returns
ReturnedAfterSave == IF lCall = "mark" THEN lReturned \cup {lUnit} ELSE lReturned

\* save_status: open(self.status_file, 'w') truncates the file
LSaveOpen ==
    /\ LedgerOnly
    /\ lPc = "open"
    /\ statusFile' = CorruptFile
    /\ lPc' = "dump"
    /\ UNCHANGED <<status, lCall, lUnit, lReturned>>

\* save_status: open raises, the except branch logs it and the call returns
LSaveOpenFails ==
    /\ LedgerOnly
    /\ lPc = "open"
    /\ lPc' = "idle"
    /\ lReturned' = ReturnedAfterSave
    /\ UNCHANGED <<status, statusFile, lCall, lUnit>>

\* save_status: json.dump wrote the status and the file is closed; then
\* mark_combination_completed returns
LSaveDump ==
    /\ LedgerOnly
    /\ lPc = "dump"
    /\ statusFile' = FileWith(status)
    /\ lPc' = "idle"
    /\ lReturned' = ReturnedAfterSave
    /\ UNCHANGED <<status, lCall, lUnit>>

\* The process stops; the next one starts with COAOpinionScraper(), which
\* reads the status file with load_status.
LCrashRestart ==
    /\ LedgerOnly
    /\ status' = load_status(statusFile)
    /\ lPc' = "idle"
    /\ UNCHANGED <<statusFile, lCall, lUnit, lReturned>>

LedgerNext == LMarkCall \/ LStartRun \/ LSaveOpen \/ LSaveOpenFails \/ LSaveDump \/ LCrashRestart

(***************************************************************************)
(* ASSEMBLY OF ONE CASE (src/pdrbot.py)                                    *)
(* process_case_opinions step by step, for one case of one index page; the *)
(* process may stop between any two steps, and the harvest is then run     *)
(* again with the same index page.                                         *)
(***************************************************************************)

\* What get_abbreviation_and_justice returns for a link: the abbreviation
\* ("" when the description names no opinion type) and the justice ("" for
\* None).
LinkKinds ==
    {[abbrev |-> "mem", justice |-> ""], [abbrev |-> "con", justice |-> "jones"],
     [abbrev |-> "dis", justice |-> "smith"], [abbrev |-> "", justice |-> ""]}

LinkLists == UNION {[1..n -> LinkKinds] : n \in 1..MaxFrags}

\* get_opinion_sort_order
get_opinion_sort_order(opinion_type) ==
    CASE opinion_type \in {"mem", "op", "opinion"} -> 1
      [] opinion_type = "con" -> 2
      [] opinion_type = "dis" -> 3
      [] OTHER -> 4

\* scrape_court_date: temp_filename of the i-th link (0 stands for no suffix)
TempFilename(links, i) ==
    LET k == links[i] IN
    IF k.abbrev # ""
    THEN IF k.justice # "" /\ k.abbrev \in {"con", "dis"}
         THEN [abbrev |-> k.abbrev, justice |-> k.justice, suffix |-> 0]
         ELSE [abbrev |-> k.abbrev, justice |-> "", suffix |-> 0]
    ELSE [abbrev |-> "", justice |-> "", suffix |-> IF Len(links) > 1 THEN i ELSE 0]

\* scrape_court_date: the opinion record appended for the i-th link
OpinionOf(links, i) ==
    LET abbrev == IF links[i].abbrev # "" THEN links[i].abbrev ELSE "opinion" IN
    [url           |-> i,
     abbrev        |-> abbrev,
     justice_name  |-> links[i].justice,
     temp_filename |-> TempFilename(links, i),
     sort_order    |-> get_opinion_sort_order(abbrev)]

Opinions(links) == [i \in 1..Len(links) |-> OpinionOf(links, i)]

\* order of the justice names as strings ('' < 'jones' < 'smith')
JusticeRank(j) == CASE j = "" -> 0 [] j = "jones" -> 1 [] OTHER -> 2

KeyLessNever(a, b) == FALSE

\* the key of sorted(): (sort_order, justice_name or ''), compared as tuples
KeyLess(a, b) ==
    \/ a.sort_order < b.sort_order
    \/ /\ a.sort_order = b.sort_order
       /\ JusticeRank(a.justice_name) < JusticeRank(b.justice_name)

RECURSIVE InsertSorted(_, _)
InsertSorted(seq, x) ==
    IF seq = <<>> THEN <<x>>
    ELSE IF KeyLess(x, Head(seq)) THEN <<x>> \o seq
         ELSE <<Head(seq)>> \o InsertSorted(Tail(seq), x)

\* sorted(opinions, key=...): stable, equal keys keep the page order
RECURSIVE SortedOpinions(_)
SortedOpinions(ops) ==
    IF ops = <<>> THEN <<>>
    ELSE InsertSorted(SortedOpinions(SubSeq(ops, 1, Len(ops) - 1)), ops[Len(ops)])

TempNames(links) == {TempFilename(links, i) : i \in 1..Len(links)}

NoTemp == [state |-> "absent", src |-> 0]

NoFinal == [state |-> "absent", pages |-> <<>>]

\* concatenate_pdfs: the pages the writer collects from pdf_paths; a path
\* that is missing or that PdfReader cannot read adds nothing
RECURSIVE CollectPages(_, _)
CollectPages(paths, disk) ==
    IF paths = <<>> THEN <<>>
    ELSE (IF disk[Head(paths)].state = "pdf" THEN <<disk[Head(paths)].src>> ELSE <<>>)
         \o CollectPages(Tail(paths), disk)

\* what is on disk and in the opinions table
DiskNow(final, db) == [final |-> final, db |-> db]

FinalExistsWhenComplete(final) == final.state = "complete"

\* os.path.exists(final_filepath)
FinalExists(final) == final.state # "absent"

AsmInit ==
    /\ aLinks \in LinkLists
    /\ aPc = "start"
    /\ aSorted = <<>>
    /\ aIdx = 1
    /\ aTempFiles = <<>>
    /\ aTemp = [n \in TempNames(aLinks) |-> NoTemp]
    /\ aFinal = NoFinal
    /\ aDb = FALSE
    /\ aRet = -1
    /\ aRuns = 1
    /\ aCrashed = FALSE
    /\ aFetched = <<>>
    /\ aCalls = 0
    /\ aWrote = FALSE
    /\ aAtStart = DiskNow(aFinal, aDb)

\* The other specifications do not run the assembly.
AsmOff ==
    /\ AsmInit
    /\ aLinks = [i \in 1..1 |-> [abbrev |-> "mem", justice |-> ""]]

\* process_case_opinions up to the download loop: return 0 when something
\* exists at final_filepath, else sort the opinions
AsmStart ==
    /\ AsmOnly
    /\ aPc = "start"
    /\ IF FinalExists(aFinal)
       THEN /\ aPc' = "done"
            /\ aRet' = 0
            /\ UNCHANGED aSorted
       ELSE /\ aPc' = "download"
            /\ aSorted' = SortedOpinions(Opinions(aLinks))
            /\ UNCHANGED aRet
    /\ aIdx' = 1
    /\ aTempFiles' = <<>>
    /\ UNCHANGED <<aLinks, aTemp, aFinal, aDb, aRuns, aCrashed, aFetched,
                 aCalls, aWrote, aAtStart>>

\* one turn of the download loop: download_pdf(opinion['url'], temp_path)
\* returns True with the fragment at temp_path, or returns False and leaves
\* temp_path untouched or holding the bytes it rejected
AsmDownload ==
    /\ AsmOnly
    /\ aPc = "download"
    /\ aIdx <= Len(aSorted)
    /\ \E o \in DownloadOutcomes :
        LET op == aSorted[aIdx] IN
        /\ aTemp' = CASE o.ok -> [aTemp EXCEPT ![op.temp_filename] =
                                      [state |-> "pdf", src |-> op.url]]
                      [] o.file = "invalid" -> [aTemp EXCEPT ![op.temp_filename] =
                                      [state |-> "invalid", src |-> op.url]]
                      [] OTHER -> aTemp
        /\ aTempFiles' = IF o.ok THEN Append(aTempFiles, op.temp_filename)
                         ELSE aTempFiles
        /\ aFetched' = IF o.ok THEN Append(aFetched, op.url) ELSE aFetched
        /\ aWrote' = (aWrote \/ o.ok \/ o.file = "invalid")
    /\ aCalls' = aCalls + 1
    /\ aIdx' = aIdx + 1
    /\ UNCHANGED <<aLinks, aPc, aSorted, aFinal, aDb, aRet, aRuns, aCrashed, aAtStart>>

\* len(temp_files) > 1: concatenate_pdfs has read the temp files and opens
\* output_path with 'wb'
AsmConcatOpen ==
    /\ AsmOnly
    /\ aPc = "download"
    /\ aIdx > Len(aSorted)
    /\ Len(aTempFiles) > 1
    /\ aFinal' = [state |-> "partial", pages |-> <<>>]
    /\ aPc' = "concat"
    /\ aWrote' = TRUE
    /\ UNCHANGED <<aLinks, aSorted, aIdx, aTempFiles, aTemp, aDb, aRet, aRuns, aCrashed, aFetched,
                 aCalls, aAtStart>>

\* concatenate_pdfs: writer.write finished and the file is closed
AsmConcatWrite ==
    /\ AsmOnly
    /\ aPc = "concat"
    /\ aFinal' = [state |-> "complete", pages |-> CollectPages(aTempFiles, aTemp)]
    /\ aPc' = "cleanup"
    /\ aWrote' = TRUE
    /\ UNCHANGED <<aLinks, aSorted, aIdx, aTempFiles, aTemp, aDb, aRet, aRuns, aCrashed, aFetched,
                 aCalls, aAtStart>>

\* len(temp_files) == 1: os.rename(temp_files[0], final_filepath)
AsmRename ==
    /\ AsmOnly
    /\ aPc = "download"
    /\ aIdx > Len(aSorted)
    /\ Len(aTempFiles) = 1
    /\ LET t == aTemp[aTempFiles[1]] IN
       aFinal' = IF t.state = "pdf"
                 THEN [state |-> "complete", pages |-> <<t.src>>]
                 ELSE [state |-> "invalid", pages |-> <<>>]
    /\ aTemp' = [aTemp EXCEPT ![aTempFiles[1]] = NoTemp]
    /\ aTempFiles' = <<>>
    /\ aPc' = "cleanup"
    /\ aWrote' = TRUE
    /\ UNCHANGED <<aLinks, aSorted, aIdx, aDb, aRet, aRuns, aCrashed, aFetched,
                 aCalls, aAtStart>>

\* no temp file: return 0
AsmNothing ==
    /\ AsmOnly
    /\ aPc = "download"
    /\ aIdx > Len(aSorted)
    /\ Len(aTempFiles) = 0
    /\ aPc' = "done"
    /\ aRet' = 0
    /\ UNCHANGED <<aLinks, aSorted, aIdx, aTempFiles, aTemp, aFinal, aDb, aRuns, aCrashed, aFetched,
                 aCalls, aWrote, aAtStart>>

\* the clean-up loop: os.remove of every path in temp_files
AsmCleanup ==
    /\ AsmOnly
    /\ aPc = "cleanup"
    /\ aTemp' = [n \in DOMAIN aTemp |-> IF n \in Range(aTempFiles) THEN NoTemp ELSE aTemp[n]]
    /\ aPc' = "savedb"
    /\ aWrote' = TRUE
    /\ UNCHANGED <<aLinks, aSorted, aIdx, aTempFiles, aFinal, aDb, aRet, aRuns, aCrashed, aFetched,
                 aCalls, aAtStart>>

\* save_opinion_to_db (INSERT OR IGNORE), then return 1
AsmSaveDb ==
    /\ AsmOnly
    /\ aPc = "savedb"
    /\ aDb' = TRUE
    /\ aPc' = "done"
    /\ aRet' = 1
    /\ UNCHANGED <<aLinks, aSorted, aIdx, aTempFiles, aTemp, aFinal, aRuns, aCrashed, aFetched,
                 aCalls, aWrote, aAtStart>>

\* The process stops inside the call; the harvest is run again and calls
\* process_case_opinions for the case with the same links.
AsmCrash ==
    /\ AsmOnly
    /\ aPc \notin {"start", "done"}
    /\ aRuns < MaxRuns
    /\ aRuns' = aRuns + 1
    /\ aCrashed' = TRUE
    /\ aPc' = "start"
    /\ aSorted' = <<>>
    /\ aIdx' = 1
    /\ aTempFiles' = <<>>
    /\ aFetched' = <<>>
    /\ aCalls' = 0
    /\ aWrote' = FALSE
    /\ aAtStart' = DiskNow(aFinal, aDb)
    /\ aRet' = -1
    /\ UNCHANGED <<aLinks, aTemp, aFinal, aDb>>

\* A later harvest of the same index page calls process_case_opinions again.
AsmRerun ==
    /\ AsmOnly
    /\ aPc = "done"
    /\ aRuns < MaxRuns
    /\ aRuns' = aRuns + 1
    /\ aPc' = "start"
    /\ aSorted' = <<>>
    /\ aIdx' = 1
    /\ aTempFiles' = <<>>
    /\ aFetched' = <<>>
    /\ aCalls' = 0
    /\ aWrote' = FALSE
    /\ aAtStart' = DiskNow(aFinal, aDb)
    /\ aRet' = -1
    /\ UNCHANGED <<aLinks, aTemp, aFinal, aDb, aCrashed>>

AsmNext ==
    \/ AsmStart \/ AsmDownload \/ AsmConcatOpen \/ AsmConcatWrite \/ AsmRename
    \/ AsmNothing \/ AsmCleanup \/ AsmSaveDb \/ AsmCrash \/ AsmRerun

(***************************************************************************)
(* CLASSIFICATION OF A LINK (src/pdrbot.py, src/scraper.py)                *)
(* get_abbreviation_and_justice on descriptions and dispositions given as  *)
(* sequences of words; `x in text.lower()` is a word of the text whose     *)
(* lower-case form is x.                                                   *)
(***************************************************************************)

\* str.lower() on the words the descriptions use
Lower(w) ==
    CASE w \in {"Memorandum", "MEMORANDUM"} -> "memorandum"
      [] w \in {"Opinion", "OPINION"} -> "opinion"
      [] w \in {"Dissenting", "DISSENTING"} -> "dissenting"
      [] w \in {"Concurring", "CONCURRING"} -> "concurring"
      [] w = "By" -> "by"
      [] w = "Chief" -> "chief"
      [] w = "Justice" -> "justice"
      [] w = "Jones" -> "jones"
      [] w = "Smith" -> "smith"
      [] w = "Affirmed" -> "affirmed"
      [] w = "Order" -> "order"
      [] OTHER -> w

LowerAll(text) == [i \in 1..Len(text) |-> Lower(text[i])]

\* `word in text` for a lower-cased text
Has(text, word) == \E i \in 1..Len(text) : text[i] = word

\* text has the words of pattern from position i on
MatchesAt(text, i, pattern) ==
    /\ i + Len(pattern) - 1 <= Len(text)
    /\ \A j \in 1..Len(pattern) : text[i + j - 1] = pattern[j]

\* re.search(r'<lead> opinion by (?:chief )?justice (\w+)', text): the word
\* after the leftmost match, "" when nothing matches; lead is <<>> where the
\* pattern makes the leading word optional
JusticeAfter(text, lead) ==
    LET plain   == lead \o <<"opinion", "by", "justice">>
        chief   == lead \o <<"opinion", "by", "chief", "justice">>
        ends(i) == IF MatchesAt(text, i, chief) /\ i + Len(chief) <= Len(text)
                   THEN i + Len(chief)
                   ELSE IF MatchesAt(text, i, plain) /\ i + Len(plain) <= Len(text)
                   THEN i + Len(plain)
                   ELSE 0
        hits    == {i \in 1..Len(text) : ends(i) # 0}
    IN IF hits = {} THEN ""
       ELSE text[ends(CHOOSE i \in hits : \A h \in hits : i <= h)]

\* the branches on the description, common to both classes
ByDescription(d) ==
    IF Has(d, "memorandum") THEN [abbrev |-> "mem", justice |-> ""]
    ELSE IF Has(d, "dissenting")
    THEN [abbrev |-> "dis", justice |-> JusticeAfter(d, <<"dissenting">>)]
    ELSE IF Has(d, "concurring")
    THEN [abbrev |-> "con", justice |-> JusticeAfter(d, <<"concurring">>)]
    ELSE IF Has(d, "opinion") THEN [abbrev |-> "op", justice |-> ""]
    ELSE [abbrev |-> "", justice |-> ""]

\* PDRBot.get_abbreviation_and_justice(description, disposition)
get_abbreviation_and_justice(description, disposition) ==
    LET d  == LowerAll(description)
        dp == LowerAll(disposition)
    IN IF Has(dp, "concurring")
       THEN [abbrev |-> "con", justice |-> JusticeAfter(d, <<>>)]
       ELSE IF Has(dp, "dissenting")
       THEN [abbrev |-> "dis", justice |-> JusticeAfter(d, <<>>)]
       ELSE ByDescription(d)

\* COAOpinionScraper.get_abbreviation_and_justice(description)
scraper_get_abbreviation_and_justice(description) == ByDescription(LowerAll(description))

\* descriptions of the "docGrid" cells of an index page
Descriptions ==
    {<<"Memorandum", "Opinion">>, <<"MEMORANDUM", "OPINION">>, <<"memorandum">>,
     <<"Opinion">>, <<"opinion">>, <<"Order">>, <<>>,
     <<"Dissenting", "Opinion", "By", "Justice", "Smith">>,
     <<"Concurring", "Opinion", "By", "Chief", "Justice", "Jones">>,
     <<"DISSENTING", "OPINION">>, <<"Concurring", "Memorandum", "Opinion">>,
     <<"CONCURRING", "OPINION", "By", "Justice", "Jones">>,
     <<"Concurring", "and", "Dissenting", "Opinion", "By", "Justice", "Jones">>,
     <<"Opinion", "By", "Justice", "Smith">>, <<"Dissenting", "Opinion", "By", "Justice">>}

\* texts of the "caseDisp" cell
Dispositions ==
    {<<>>, <<"Affirmed">>, <<"Affirmed", "Concurring", "Opinion">>,
     <<"DISSENTING">>, <<"Concurring", "and", "Dissenting">>, <<"dissenting", "opinion">>}

ClassInit ==
    /\ kFunc = "pdrbot"
    /\ kDesc = <<>>
    /\ kDisp = <<>>
    /\ kPc = "idle"
    /\ kResult = [abbrev |-> "", justice |-> ""]

\* PDRBot.scrape_court_date: get_abbreviation_and_justice(description, disposition)
ClassifyPdrbot ==
    /\ ClassOnly
    /\ \E d \in Descriptions, dp \in Dispositions :
        /\ kDesc' = d
        /\ kDisp' = dp
        /\ kResult' = get_abbreviation_and_justice(d, dp)
    /\ kFunc' = "pdrbot"
    /\ kPc' = "done"

\* COAOpinionScraper.scrape_court_date: get_abbreviation_and_justice(description)
ClassifyScraper ==
    /\ ClassOnly
    /\ \E d \in Descriptions :
        /\ kDesc' = d
        /\ kResult' = scraper_get_abbreviation_and_justice(d)
    /\ kDisp' = <<>>
    /\ kFunc' = "scraper"
    /\ kPc' = "done"

ClassNext == ClassifyPdrbot \/ ClassifyScraper

(***************************************************************************)
(* ONE INDEX PAGE WITH SEVERAL CASES (src/pdrbot.py)                       *)
(* PDRBot.scrape_court_date groups the rows of the page by case number and *)
(* calls process_case_opinions for every case, each call in its own        *)
(* try/except.                                                             *)
(***************************************************************************)

CaseNumbers == 1..MaxCases

\* parse_criminal_causes: the case numbers of the rows of one page
Dockets == UNION {[1..n -> CaseNumbers] : n \in 0..MaxCases}

\* case_opinions: a dict keeps its keys in the order of their first insertion
RECURSIVE GroupByCase(_)
GroupByCase(rows) ==
    IF rows = <<>> THEN <<>>
    ELSE LET front == GroupByCase(SubSeq(rows, 1, Len(rows) - 1))
             last  == rows[Len(rows)]
         IN IF last \in Range(front) THEN front ELSE Append(front, last)

\* process_case_opinions returns 1 with the artifact made, 0 because the
\* final file exists, 0 because no download succeeded, or raises
CaseResults == {"artifact", "exists", "failed", "raised"}

\* what process_case_opinions can raise: os.rename or open fails (OSError),
\* PdfReader rejects a temp file (PdfReadError)
CaseFailures == {"OSError", "PdfReadError"}

CaseCatchesNothing(exc) == FALSE

\* the loop over the cases: except Exception as e
CaseCatches(exc) == exc \in {"OSError", "PdfReadError", "Exception"}

NoReturn == [cases |-> -1, files |-> -1]

UnitInit ==
    /\ uRows \in Dockets
    /\ uPc = "called"
    /\ uIdx = 1
    /\ uOutcomes = <<>>
    /\ uCount = 0
    /\ uRet = NoReturn

\* The other specifications harvest no page of several cases.
UnitOff ==
    /\ UnitInit
    /\ uRows = <<>>

\* if not criminal_cases: return 0, 0
UnitNoCases ==
    /\ UnitOnly
    /\ uPc = "called"
    /\ uRows = <<>>
    /\ uPc' = "returned"
    /\ uRet' = [cases |-> 0, files |-> 0]
    /\ UNCHANGED <<uRows, uIdx, uOutcomes, uCount>>

\* downloaded_count = 0 and the grouping loop
UnitGroup ==
    /\ UnitOnly
    /\ uPc = "called"
    /\ uRows # <<>>
    /\ uPc' = "cases"
    /\ uIdx' = 1
    /\ uCount' = 0
    /\ UNCHANGED <<uRows, uOutcomes, uRet>>

\* one turn of the loop over case_opinions.items(): the call adds its return
\* value to downloaded_count, or raises and the except clause logs the
\* error; an exception it does not catch reaches the except clause of
\* scrape_court_date, which returns 0, 0
UnitCase ==
    /\ UnitOnly
    /\ uPc = "cases"
    /\ uIdx <= Len(GroupByCase(uRows))
    /\ \E kind \in CaseResults, exc \in CaseFailures :
        /\ uOutcomes' = Append(uOutcomes, [case |-> GroupByCase(uRows)[uIdx], kind |-> kind])
        /\ IF kind = "raised" /\ ~CaseCatches(exc)
           THEN /\ uPc' = "returned"
                /\ uRet' = [cases |-> 0, files |-> 0]
                /\ UNCHANGED <<uIdx, uCount>>
           ELSE /\ uCount' = uCount + (IF kind = "artifact" THEN 1 ELSE 0)
                /\ uIdx' = uIdx + 1
                /\ UNCHANGED <<uPc, uRet>>
    /\ UNCHANGED uRows

\* return total_cases, downloaded_count
UnitReturn ==
    /\ UnitOnly
    /\ uPc = "cases"
    /\ uIdx > Len(GroupByCase(uRows))
    /\ uPc' = "returned"
    /\ uRet' = [cases |-> Len(uRows), files |-> uCount]
    /\ UNCHANGED <<uRows, uIdx, uOutcomes, uCount>>

UnitNext == UnitNoCases \/ UnitGroup \/ UnitCase \/ UnitReturn

(***************************************************************************)
(* THE ENUMERATION OF THE UNITS (src/scraper.py)                           *)
(* The generator generate_date_range and the two loops of                  *)
(* run_full_production, step by step, over a range that holds a weekend.   *)
(***************************************************************************)

EnumDays == 1..MaxEnumDays

CourtAtDescending(i) == NumCourts + 1 - i

\* courts = list(range(1, 15)): the court at position i of the inner loop
CourtAt(i) == i

EnumUnit == [date |-> eDate, court |-> CourtAt(eCourt)]

\* a status whose last completed unit is u; no unit completed yet when u
\* is NoUnit
NoUnit == [date |-> None, court |-> None]

StatusWithLast(u) ==
    [DefaultStatus EXCEPT !.last_completed_date = u.date, !.last_completed_court = u.court]

\* the pass starts from the status a former pass left: its last completed
\* unit is a weekday of the range and a court, or there is none
EnumInit ==
    /\ eEnd \in EnumDays
    /\ eLast \in {NoUnit} \cup
                 {u \in [date : EnumDays, court : Courts] :
                      ~IsWeekend(u.date) /\ u.date <= eEnd}
    /\ eResume = ResumePoint(StatusWithLast(eLast))
    /\ eStarted = FALSE
    /\ ePc = "dates"
    /\ eDate = 1
    /\ eCourt = 1
    /\ eTrace = <<>>

\* The other specifications do not step through the loops.
EnumOff ==
    /\ EnumInit
    /\ eEnd = 1
    /\ eLast = NoUnit

\* generate_date_range: a weekend day is passed over
EnumSkipWeekend ==
    /\ EnumOnly
    /\ ePc = "dates"
    /\ eDate <= eEnd
    /\ IsWeekend(eDate)
    /\ eDate' = eDate + 1
    /\ UNCHANGED <<eLast, eEnd, eResume, eStarted, ePc, eCourt, eTrace>>

\* generate_date_range: yield current; the inner loop starts
EnumYield ==
    /\ EnumOnly
    /\ ePc = "dates"
    /\ eDate <= eEnd
    /\ ~IsWeekend(eDate)
    /\ ePc' = "courts"
    /\ eCourt' = 1
    /\ UNCHANGED <<eLast, eEnd, eResume, eStarted, eDate, eTrace>>

\* the inner loop: `continue` before the resume point
EnumContinue ==
    /\ EnumOnly
    /\ ePc = "courts"
    /\ eCourt <= NumCourts
    /\ ~eStarted
    /\ BeforeResume(EnumUnit, eResume)
    /\ eCourt' = eCourt + 1
    /\ UNCHANGED <<eLast, eEnd, eResume, eStarted, ePc, eDate, eTrace>>

\* the inner loop: scrape_court_date(coa_num, date)
EnumScrape ==
    /\ EnumOnly
    /\ ePc = "courts"
    /\ eCourt <= NumCourts
    /\ eStarted \/ ~BeforeResume(EnumUnit, eResume)
    /\ eStarted' = TRUE
    /\ eTrace' = Append(eTrace, EnumUnit)
    /\ eCourt' = eCourt + 1
    /\ UNCHANGED <<eLast, eEnd, eResume, ePc, eDate>>

\* the inner loop is exhausted: generate_date_range is resumed
EnumNextDate ==
    /\ EnumOnly
    /\ ePc = "courts"
    /\ eCourt > NumCourts
    /\ ePc' = "dates"
    /\ eDate' = eDate + 1
    /\ UNCHANGED <<eLast, eEnd, eResume, eStarted, eCourt, eTrace>>

\* generate_date_range is exhausted: the outer loop ends
EnumEnd ==
    /\ EnumOnly
    /\ ePc = "dates"
    /\ eDate > eEnd
    /\ ePc' = "done"
    /\ UNCHANGED <<eLast, eEnd, eResume, eStarted, eDate, eCourt, eTrace>>

EnumNext ==
    \/ EnumSkipWeekend
    \/ EnumYield
    \/ EnumContinue
    \/ EnumScrape
    \/ EnumNextDate
    \/ EnumEnd

(***************************************************************************)
(* THE DAILY RUN OF PDRBot (src/pdrbot.py)                                 *)
(* run_daily_automation and resume_incomplete_run, step by step: every     *)
(* update_run_state and every phase's work is a step of its own, and the   *)
(* process can stop between any two steps.                                 *)
(***************************************************************************)

\* find_incomplete_runs: status IN ('running', 'scraping', 'analyzing', 'reporting')
IncompleteStatuses == {"running", "scraping", "analyzing", "reporting"}

PhaseStatusStale(phase) == "running"

PhaseStatusBackward(phase) ==
    CASE phase = "harvest" -> "emailing"
      [] phase = "process" -> "reporting"
      [] phase = "report"  -> "analyzing"
      [] OTHER             -> "scraping"

\* the status persisted before the work of a phase begins
PhaseStatus(phase) ==
    CASE phase = "harvest" -> "scraping"
      [] phase = "process" -> "analyzing"
      [] phase = "report"  -> "reporting"
      [] OTHER             -> "emailing"

RestartsHarvestFromRunningOnly(from) == from = "running"

\* resume_incomplete_run: if state['status'] in ['running', 'scraping']
RestartsHarvest(from) == from \in {"running", "scraping"}

\* resume_incomplete_run: if state['status'] in ['running', 'scraping',
\* 'analyzing', 'reporting']
ReportsOnResume(from) == from \in {"running", "scraping", "analyzing", "reporting"}

\* the opinions table: opinions of the target date and of another date
OpinionRows == {[id |-> 1, date |-> "target"], [id |-> 2, date |-> "other"]}

\* LEFT JOIN analysis ... WHERE a.opinion_id IS NULL
Unanalyzed(table, analyzed) == table \ analyzed

\* the opinions of the target date that have no analysis record
UnanalyzedOfDate(table, analyzed) ==
    {o \in Unanalyzed(table, analyzed) : o.date = "target"}

\* get_unanalyzed_opinions_for_date: ... WHERE o.opinion_date = ? AND
\* a.opinion_id IS NULL AND o.consolidated_with IS NULL.  The opinions table
\* init_database creates has no column consolidated_with, and nothing adds
\* one: on such a table cursor.execute raises sqlite3.OperationalError (no
\* such column).  CREATE TABLE IF NOT EXISTS keeps a table that was in the
\* database file before, so a table that has the column stays as it is; no
\* statement of the program writes the column, which is NULL in every row.
get_unanalyzed_opinions_for_date(column, table, analyzed) ==
    IF column
    THEN [raises |-> FALSE, rows |-> UnanalyzedOfDate(table, analyzed)]
    ELSE [raises |-> TRUE, rows |-> {}]

\* get_unanalyzed_opinions: every opinion without an analysis record
get_unanalyzed_opinions(table, analyzed) == Unanalyzed(table, analyzed)

\* get_unique_filename: the base name (suffix 0) when no such file exists,
\* else the first of -1, -2, ... that is free
get_unique_filename(existing) ==
    IF 0 \notin existing THEN 0
    ELSE CHOOSE k \in 1..(Cardinality(existing) + 1) :
             k \notin existing /\ \A j \in 1..(k - 1) : j \in existing

\* what send_email_report meets: the mail is sent, the configuration or the
\* report file is missing (return False), or smtplib or open raises
SendResults == {"sent", "refused", "SMTPException", "OSError"}

SendCatchesNothing(exc) == FALSE

\* send_email_report: except Exception as e: return False
SendCatches(exc) == exc \in {"SMTPException", "OSError", "Exception"}

\* update_run_state(run_id, status=s)
Persist(s) ==
    /\ rStatus' = s
    /\ rTrail' = Append(rTrail, s)

\* the call returns v
Return(v) ==
    /\ rPc' = "idle"
    /\ rRet' = v

\* where a call goes once the analysis step is behind it: to the report, or,
\* in resume_incomplete_run from another status, off the end of the function
AfterAnalysis ==
    IF rCall = "fresh" \/ ReportsOnResume(rFrom)
    THEN /\ rPc' = "mark_reporting"
         /\ UNCHANGED rRet
    ELSE Return("None")

RunInit ==
    /\ rExists = FALSE
    /\ rStatus = "none"
    /\ rError = ""
    /\ rTable \in SUBSET OpinionRows
    /\ rAnalyzed \in SUBSET rTable
    /\ rReportFiles = {}
    /\ rAnalysisOn \in BOOLEAN
    /\ rClient \in BOOLEAN
    /\ rEmailOn \in BOOLEAN
    /\ rPc = "idle"
    /\ rCall = "none"
    /\ rFrom = "none"
    /\ rRet = "-"
    /\ rCalls = 0
    /\ rTrail = <<>>
    /\ rWorks = <<>>
    /\ rFailed = "none"
    /\ rReportOut = "-"
    /\ rExpected = {}
    /\ rHanded = {}
    /\ rColumn \in BOOLEAN
    /\ rQuery = "-"
    /\ rLeft = "none"

\* The other specifications start no daily run.
RunOff ==
    /\ RunInit
    /\ rTable = {}
    /\ rColumn
    /\ rAnalysisOn
    /\ rClient
    /\ rEmailOn

\* the history of a call that begins
NewCall(kind, from) ==
    /\ rCall' = kind
    /\ rFrom' = from
    /\ rRet' = "-"
    /\ rCalls' = rCalls + 1
    /\ rWorks' = <<>>
    /\ rFailed' = "none"
    /\ rReportOut' = "-"
    /\ rExpected' = {}
    /\ rHanded' = {}
    /\ rQuery' = "-"

\* run_daily_automation(): an incomplete run of the date is resumed, else a
\* new row is inserted with status 'running'
AutomationCall ==
    /\ RunOnly
    /\ rPc = "idle"
    /\ rCalls < MaxCalls
    /\ IF rExists /\ rStatus \in IncompleteStatuses
       THEN /\ NewCall("resume", rStatus)
            /\ rPc' = "mark_resuming"
            /\ rTrail' = <<>>
            /\ rLeft' = "none"
            /\ UNCHANGED <<rExists, rStatus, rError>>
       ELSE /\ NewCall("fresh", "none")
            /\ rLeft' = IF rExists /\ rRet = "crashed" THEN rStatus ELSE "none"
            /\ rExists' = TRUE
            /\ rStatus' = "running"
            /\ rTrail' = <<"running">>
            /\ rError' = ""
            /\ rPc' = "mark_scraping"
    /\ UNCHANGED <<rTable, rAnalyzed, rReportFiles, rAnalysisOn, rClient, rEmailOn,
                   rColumn>>

\* run_daily_automation(resume_run_id) / resume_incomplete_run(run_id) for
\* the row, whatever its status
ResumeCall ==
    /\ RunOnly
    /\ rPc = "idle"
    /\ rCalls < MaxCalls
    /\ rExists
    /\ NewCall("resume", rStatus)
    /\ rPc' = "mark_resuming"
    /\ rTrail' = <<>>
    /\ rLeft' = "none"
    /\ UNCHANGED <<rExists, rStatus, rError, rTable, rAnalyzed, rReportFiles,
                   rAnalysisOn, rClient, rEmailOn, rColumn>>

\* resume_incomplete_run: update_run_state(run_id, status='resuming')
MarkResuming ==
    /\ RunOnly
    /\ rPc = "mark_resuming"
    /\ Persist("resuming")
    /\ rPc' = IF RestartsHarvest(rFrom) THEN "mark_scraping" ELSE "check_analysis"
    /\ UNCHANGED <<rExists, rError, rTable, rAnalyzed, rReportFiles, rAnalysisOn, rClient,
                   rEmailOn, rCall, rFrom, rRet, rCalls, rWorks, rFailed, rReportOut,
                   rExpected, rHanded,
                   rColumn, rQuery, rLeft>>

\* update_run_state(run_id, status='scraping')
MarkScraping ==
    /\ RunOnly
    /\ rPc = "mark_scraping"
    /\ Persist(PhaseStatus("harvest"))
    /\ rPc' = "scrape"
    /\ UNCHANGED <<rExists, rError, rTable, rAnalyzed, rReportFiles, rAnalysisOn, rClient,
                   rEmailOn, rCall, rFrom, rRet, rCalls, rWorks, rFailed, rReportOut,
                   rExpected, rHanded,
                   rColumn, rQuery, rLeft>>

\* resume_daily_scrape runs to its end: the opinions it saved are in the
\* table, and its final update sets 'scrape_completed'
ScrapeDone ==
    /\ RunOnly
    /\ rPc = "scrape"
    /\ rWorks' = Append(rWorks, "harvest")
    /\ \E new \in SUBSET {o \in OpinionRows : o.date = "target"} :
           rTable' = rTable \cup new
    /\ Persist("scrape_completed")
    /\ rPc' = "check_analysis"
    /\ UNCHANGED <<rExists, rError, rAnalyzed, rReportFiles, rAnalysisOn, rClient,
                   rEmailOn, rCall, rFrom, rRet, rCalls, rFailed, rReportOut,
                   rExpected, rHanded,
                   rColumn, rQuery, rLeft>>

\* resume_daily_scrape raises outside its per-court try: its except clause
\* sets 'scrape_failed' with the message and raises again
ScrapeFails ==
    /\ RunOnly
    /\ rPc = "scrape"
    /\ rWorks' = Append(rWorks, "harvest")
    /\ Persist("scrape_failed")
    /\ rError' = "Scraping failed"
    /\ rFailed' = "harvest"
    /\ rPc' = "except"
    /\ UNCHANGED <<rExists, rTable, rAnalyzed, rReportFiles, rAnalysisOn, rClient,
                   rEmailOn, rCall, rFrom, rRet, rCalls, rReportOut, rExpected, rHanded,
                   rColumn, rQuery, rLeft>>

\* the test before the analysis: run_daily_automation asks for
\* self.analysis_enabled and self.claude_client first and counts the rows of
\* get_unanalyzed_opinions_for_date only then; resume_incomplete_run counts
\* them first.  A query that raises leaves the try block for the except
\* clause.
CheckAnalysis ==
    /\ RunOnly
    /\ rPc = "check_analysis"
    /\ LET asked  == rCall = "resume" \/ (rAnalysisOn /\ rClient)
           answer == get_unanalyzed_opinions_for_date(rColumn, rTable, rAnalyzed)
           count  == Cardinality(answer.rows)
           wanted == IF rCall = "fresh"
                     THEN rAnalysisOn /\ rClient /\ count > 0
                     ELSE count > 0 /\ rAnalysisOn
       IN IF asked /\ answer.raises
          THEN /\ rQuery' = "OperationalError"
               /\ rPc' = "except"
               /\ UNCHANGED <<rStatus, rTrail, rRet>>
          ELSE /\ rQuery' = IF asked THEN "rows" ELSE "-"
               /\ IF wanted
                  THEN /\ Persist(PhaseStatus("process"))
                       /\ rPc' = "analyze"
                       /\ UNCHANGED rRet
                  ELSE /\ AfterAnalysis
                       /\ UNCHANGED <<rStatus, rTrail>>
    /\ rExpected' = UnanalyzedOfDate(rTable, rAnalyzed)
    /\ UNCHANGED <<rExists, rError, rTable, rAnalyzed, rReportFiles, rAnalysisOn, rClient,
                   rEmailOn, rCall, rFrom, rCalls, rWorks, rFailed, rReportOut, rHanded,
                   rColumn, rLeft>>

\* run_analysis_batch(): returns at once without the client; else hands
\* every row of get_unanalyzed_opinions() to process_opinion_analysis, which
\* saves an analysis record for the rows it succeeds on
Analyze ==
    /\ RunOnly
    /\ rPc = "analyze"
    /\ rWorks' = Append(rWorks, "process")
    /\ LET batch == IF rAnalysisOn /\ rClient
                    THEN get_unanalyzed_opinions(rTable, rAnalyzed) ELSE {}
       IN /\ rHanded' = batch
          /\ \E saved \in SUBSET batch : rAnalyzed' = rAnalyzed \cup saved
    /\ AfterAnalysis
    /\ UNCHANGED <<rExists, rStatus, rError, rTable, rReportFiles, rAnalysisOn, rClient,
                   rEmailOn, rCall, rFrom, rCalls, rTrail, rFailed, rReportOut, rExpected,
                   rColumn, rQuery, rLeft>>

\* run_analysis_batch raises: sqlite3.connect and conn.cursor of
\* get_unanalyzed_opinions come before its try
AnalyzeFails ==
    /\ RunOnly
    /\ rPc = "analyze"
    /\ rWorks' = Append(rWorks, "process")
    /\ rFailed' = "process"
    /\ rPc' = "except"
    /\ UNCHANGED <<rExists, rStatus, rError, rTable, rAnalyzed, rReportFiles, rAnalysisOn,
                   rClient, rEmailOn, rCall, rFrom, rRet, rCalls, rTrail, rReportOut,
                   rExpected, rHanded,
                   rColumn, rQuery, rLeft>>

\* update_run_state(run_id, status='reporting')
MarkReporting ==
    /\ RunOnly
    /\ rPc = "mark_reporting"
    /\ Persist(PhaseStatus("report"))
    /\ rPc' = "report"
    /\ UNCHANGED <<rExists, rError, rTable, rAnalyzed, rReportFiles, rAnalysisOn, rClient,
                   rEmailOn, rCall, rFrom, rRet, rCalls, rWorks, rFailed, rReportOut,
                   rExpected, rHanded,
                   rColumn, rQuery, rLeft>>

\* generate_daily_report: None when there is no analysed case of the date or
\* doc.build fails, else the path of the file written under the name
\* get_unique_filename chose
Report ==
    /\ RunOnly
    /\ rPc = "report"
    /\ rWorks' = Append(rWorks, "report")
    /\ \/ /\ rReportOut' = "none"
          /\ UNCHANGED rReportFiles
       \/ /\ rReportOut' = "path"
          /\ rReportFiles' = rReportFiles \cup {get_unique_filename(rReportFiles)}
    /\ rPc' = "after_report"
    /\ UNCHANGED <<rExists, rStatus, rError, rTable, rAnalyzed, rAnalysisOn, rClient,
                   rEmailOn, rCall, rFrom, rRet, rCalls, rTrail, rFailed, rExpected, rHanded,
                   rColumn, rQuery, rLeft>>

\* generate_analysis_report raises before doc.build (get_analysis_results,
\* Paragraph on markup it cannot parse)
ReportFails ==
    /\ RunOnly
    /\ rPc = "report"
    /\ rWorks' = Append(rWorks, "report")
    /\ rFailed' = "report"
    /\ rPc' = "except"
    /\ UNCHANGED <<rExists, rStatus, rError, rTable, rAnalyzed, rReportFiles, rAnalysisOn,
                   rClient, rEmailOn, rCall, rFrom, rRet, rCalls, rTrail, rReportOut,
                   rExpected, rHanded,
                   rColumn, rQuery, rLeft>>

\* what follows the report: run_daily_automation ends with 'no_cases' when
\* there is no report; resume_incomplete_run ends with 'completed' unless
\* there is a report and email is enabled; 'emailing' is set before the mail
AfterReport ==
    /\ RunOnly
    /\ rPc = "after_report"
    /\ IF rCall = "fresh" /\ rReportOut = "none"
       THEN /\ Persist("no_cases")
            /\ rError' = "No cases found for report"
            /\ Return("False")
       ELSE IF rReportOut = "path" /\ rEmailOn
       THEN /\ Persist(PhaseStatus("notify"))
            /\ rPc' = "email"
            /\ UNCHANGED <<rError, rRet>>
       ELSE /\ Persist("completed")
            /\ Return("True")
            /\ UNCHANGED rError
    /\ UNCHANGED <<rExists, rTable, rAnalyzed, rReportFiles, rAnalysisOn, rClient,
                   rEmailOn, rCall, rFrom, rCalls, rWorks, rFailed, rReportOut,
                   rExpected, rHanded,
                   rColumn, rQuery, rLeft>>

\* send_email_report and the branch on email_success
Email ==
    /\ RunOnly
    /\ rPc = "email"
    /\ rWorks' = Append(rWorks, "notify")
    /\ \E res \in SendResults :
        IF res = "sent"
        THEN /\ Persist("completed")
             /\ Return("True")
             /\ UNCHANGED <<rError, rFailed>>
        ELSE IF res = "refused" \/ SendCatches(res)
        THEN /\ Persist("email_failed")
             /\ rError' = "Email sending failed"
             /\ rFailed' = "notify"
             /\ Return("False")
        ELSE /\ rFailed' = "notify"
             /\ rPc' = "except"
             /\ UNCHANGED <<rStatus, rTrail, rError, rRet>>
    /\ UNCHANGED <<rExists, rTable, rAnalyzed, rReportFiles, rAnalysisOn, rClient,
                   rEmailOn, rCall, rFrom, rCalls, rReportOut, rExpected, rHanded,
                   rColumn, rQuery, rLeft>>

\* except Exception as e: update_run_state(run_id, status='failed',
\* error_message=error_msg); return False
Except ==
    /\ RunOnly
    /\ rPc = "except"
    /\ Persist("failed")
    /\ rError' = IF rCall = "fresh" THEN "Daily automation failed" ELSE "Resume failed"
    /\ Return("False")
    /\ UNCHANGED <<rExists, rTable, rAnalyzed, rReportFiles, rAnalysisOn, rClient,
                   rEmailOn, rCall, rFrom, rCalls, rWorks, rFailed, rReportOut,
                   rExpected, rHanded,
                   rColumn, rQuery, rLeft>>

\* The process stops inside a call; the row keeps the status last persisted.
RunCrash ==
    /\ RunOnly
    /\ rPc # "idle"
    /\ Return("crashed")
    /\ UNCHANGED <<rExists, rStatus, rError, rTable, rAnalyzed, rReportFiles, rAnalysisOn,
                   rClient, rEmailOn, rCall, rFrom, rCalls, rTrail, rWorks, rFailed,
                   rReportOut, rExpected, rHanded,
                   rColumn, rQuery, rLeft>>

RunNext ==
    \/ AutomationCall
    \/ ResumeCall
    \/ MarkResuming
    \/ MarkScraping
    \/ ScrapeDone
    \/ ScrapeFails
    \/ CheckAnalysis
    \/ Analyze
    \/ AnalyzeFails
    \/ MarkReporting
    \/ Report
    \/ ReportFails
    \/ AfterReport
    \/ Email
    \/ Except
    \/ RunCrash

(***************************************************************************)
(* THE ANALYSIS BATCH OF PDRBot (src/pdrbot.py)                            *)
(* run_analysis_batch step by step: the query, the slice, one step for     *)
(* every opinion of the loop; between two calls the harvest stores new     *)
(* opinions and analyze_directory_pdfs analyses opinions on its own.  An   *)
(* opinion's id stands for its place in the ORDER BY of the query too      *)
(* (the greater id is the later opinion_date).  The query and INSERT are   *)
(* taken as executed by sqlite; a query that raises answers [] and is not  *)
(* stepped.                                                                *)
(***************************************************************************)

OpinionIds == 1..MaxOpinions

\* limit: None (0 stands for it, `if limit:` treats both alike) or a count
Limits == 0..(MaxOpinions - 1)

\* the opinions that have a row in analysis
Recorded(analysis) == {r.opinion_id : r \in analysis}

\* ORDER BY o.opinion_date DESC: the ids of a set, the greatest first
RECURSIVE LatestFirst(_)
LatestFirst(ids) ==
    IF ids = {} THEN <<>>
    ELSE LET top == CHOOSE x \in ids : \A y \in ids : y <= x
         IN <<top>> \o LatestFirst(ids \ {top})

\* a query without the filter `a.opinion_id IS NULL`
get_all_opinions_rows(opinions, analysis) == LatestFirst(opinions)

\* get_unanalyzed_opinions, its rows in the order of the query: opinions
\* LEFT JOIN analysis, the rows without a match
get_unanalyzed_opinions_rows(opinions, analysis) ==
    LatestFirst({o \in opinions : ~\E r \in analysis : r.opinion_id = o})

\* unanalyzed[:limit]
FirstRows(unanalyzed, limit) ==
    IF limit = 0 THEN unanalyzed
    ELSE SubSeq(unanalyzed, 1, IF limit < Len(unanalyzed) THEN limit ELSE Len(unanalyzed))

\* save_analysis_to_db: INSERT OR REPLACE under UNIQUE(opinion_id) deletes
\* the row of the opinion, if any, and inserts the new one
save_analysis_to_db(analysis, opinion_id, row) ==
    {r \in analysis : r.opinion_id # opinion_id} \cup {[id |-> row, opinion_id |-> opinion_id]}

\* How process_opinion_analysis ends for one opinion: it returns True after
\* the save; it returns False (no text, no answer, or the save failed); it
\* raises before the save; it raises after the save, inside
\* scrape_case_representatives.
AnalysisOutcomes == {"saved", "false", "raised", "saved_raised"}

Saves(outcome) == outcome \in {"saved", "saved_raised"}

\* process_opinion_analysis, its effect on the table analysis
process_opinion_analysis(opinion_id, outcome) ==
    /\ bAnalysis' = IF Saves(outcome)
                    THEN save_analysis_to_db(bAnalysis, opinion_id, bNextRow)
                    ELSE bAnalysis
    /\ bNextRow' = IF Saves(outcome) THEN bNextRow + 1 ELSE bNextRow
    /\ bFailed' = IF Saves(outcome) THEN bFailed \ {opinion_id} ELSE bFailed \cup {opinion_id}

BatchInit ==
    /\ bOpinions \in SUBSET OpinionIds
    /\ bAnalysis = {}
    /\ bNextRow = 1
    /\ bEnabled \in BOOLEAN
    /\ bPc = "idle"
    /\ bLimit = 0
    /\ bQuery = <<>>
    /\ bBatch = <<>>
    /\ bPos = 1
    /\ bHanded = <<>>
    /\ bFailed = {}
    /\ bRecordedAtStart = {}
    /\ bFailedAtStart = {}
    /\ bBatches = 0

\* The other specifications run no batch.
BatchOff ==
    /\ BatchInit
    /\ bOpinions = {}
    /\ bEnabled

\* run_analysis_batch: analysis disabled or no client, the call returns
BatchDisabled ==
    /\ BatchOnly
    /\ bPc = "idle"
    /\ bBatches < MaxBatches
    /\ ~bEnabled
    /\ bBatches' = bBatches + 1
    /\ UNCHANGED <<bOpinions, bAnalysis, bNextRow, bEnabled, bPc, bLimit, bQuery, bBatch,
                   bPos, bHanded, bFailed, bRecordedAtStart, bFailedAtStart>>

\* run_analysis_batch: the query and the slice; an empty list returns
BatchStart ==
    /\ BatchOnly
    /\ bPc = "idle"
    /\ bBatches < MaxBatches
    /\ bEnabled
    /\ \E limit \in Limits :
        LET unanalyzed == get_unanalyzed_opinions_rows(bOpinions, bAnalysis)
            sliced == FirstRows(unanalyzed, limit)
        IN /\ bLimit' = limit
           /\ bQuery' = unanalyzed
           /\ bBatch' = sliced
           /\ bPc' = IF sliced = <<>> THEN "idle" ELSE "loop"
    /\ bPos' = 1
    /\ bHanded' = <<>>
    /\ bRecordedAtStart' = Recorded(bAnalysis)
    /\ bFailedAtStart' = bFailed
    /\ bBatches' = bBatches + 1
    /\ UNCHANGED <<bOpinions, bAnalysis, bNextRow, bEnabled, bFailed>>

\* the for loop: one opinion is handed to process_opinion_analysis; False
\* and an exception are counted and the loop goes on
BatchOpinion ==
    /\ BatchOnly
    /\ bPc = "loop"
    /\ bPos <= Len(bBatch)
    /\ \E outcome \in AnalysisOutcomes : process_opinion_analysis(bBatch[bPos], outcome)
    /\ bHanded' = Append(bHanded, bBatch[bPos])
    /\ bPos' = bPos + 1
    /\ UNCHANGED <<bOpinions, bEnabled, bPc, bLimit, bQuery, bBatch, bRecordedAtStart,
                   bFailedAtStart, bBatches>>

\* the loop is exhausted: the call returns
BatchEnd ==
    /\ BatchOnly
    /\ bPc = "loop"
    /\ bPos > Len(bBatch)
    /\ bPc' = "idle"
    /\ UNCHANGED <<bOpinions, bAnalysis, bNextRow, bEnabled, bLimit, bQuery, bBatch, bPos,
                   bHanded, bFailed, bRecordedAtStart, bFailedAtStart, bBatches>>

\* the process stops inside the loop; the list of the call is gone
BatchCrash ==
    /\ BatchOnly
    /\ bPc = "loop"
    /\ bPos <= Len(bBatch)
    /\ bPc' = "idle"
    /\ UNCHANGED <<bOpinions, bAnalysis, bNextRow, bEnabled, bLimit, bQuery, bBatch, bPos,
                   bHanded, bFailed, bRecordedAtStart, bFailedAtStart, bBatches>>

\* between two calls a harvest stores a new opinion (save_opinion_to_db, or
\* the INSERT of analyze_directory_pdfs)
BatchNewOpinion ==
    /\ BatchOnly
    /\ bPc = "idle"
    /\ \E o \in OpinionIds \ bOpinions : bOpinions' = bOpinions \cup {o}
    /\ UNCHANGED <<bAnalysis, bNextRow, bEnabled, bPc, bLimit, bQuery, bBatch, bPos,
                   bHanded, bFailed, bRecordedAtStart, bFailedAtStart, bBatches>>

\* between two calls analyze_directory_pdfs hands an opinion that is not
\* yet analysed to process_opinion_analysis
BatchDirectory ==
    /\ BatchOnly
    /\ bPc = "idle"
    /\ bEnabled
    /\ \E o \in bOpinions \ Recorded(bAnalysis) :
        \E outcome \in AnalysisOutcomes : process_opinion_analysis(o, outcome)
    /\ UNCHANGED <<bOpinions, bEnabled, bPc, bLimit, bQuery, bBatch, bPos, bHanded,
                   bRecordedAtStart, bFailedAtStart, bBatches>>

BatchNext ==
    \/ BatchDisabled
    \/ BatchStart
    \/ BatchOpinion
    \/ BatchEnd
    \/ BatchCrash
    \/ BatchNewOpinion
    \/ BatchDirectory

Init ==
    FetchInit /\ LedgerInit /\ CoordInit /\ RowInit /\ CrashInit /\ AsmOff /\ ClassInit /\ UnitOff /\ EnumOff /\ RunOff /\ BatchOff

InitAsm ==
    FetchInit /\ LedgerInit /\ CoordInit /\ RowInit /\ CrashInit /\ AsmInit /\ ClassInit /\ UnitOff /\ EnumOff /\ RunOff /\ BatchOff

InitUnit ==
    FetchInit /\ LedgerInit /\ CoordInit /\ RowInit /\ CrashInit /\ AsmOff /\ ClassInit /\ UnitInit /\ EnumOff /\ RunOff /\ BatchOff

InitEnum ==
    FetchInit /\ LedgerInit /\ CoordInit /\ RowInit /\ CrashInit /\ AsmOff /\ ClassInit /\ UnitOff /\ EnumInit /\ RunOff /\ BatchOff

InitRun ==
    FetchInit /\ LedgerInit /\ CoordInit /\ RowInit /\ CrashInit /\ AsmOff /\ ClassInit /\ UnitOff /\ EnumOff /\ RunInit /\ BatchOff

InitBatch ==
    FetchInit /\ LedgerInit /\ CoordInit /\ RowInit /\ CrashInit /\ AsmOff /\ ClassInit /\ UnitOff /\ EnumOff /\ RunOff /\ BatchInit

SpecFetch == Init /\ [][FetchNext]_vars

Spec == Init /\ [][CoordNext]_vars

SpecDaily == Init /\ [][DailyNext]_vars

SpecLedger == Init /\ [][LedgerNext]_vars

SpecAsm == InitAsm /\ [][AsmNext]_vars

SpecClassify == Init /\ [][ClassNext]_vars

SpecUnit == InitUnit /\ [][UnitNext]_vars

SpecEnum == InitEnum /\ [][EnumNext]_vars

SpecRun == InitRun /\ [][RunNext]_vars

SpecBatch == InitBatch /\ [][BatchNext]_vars

(***************************************************************************)
(* Claims about the ledger under crashes (checked under SpecLedger).       *)
(***************************************************************************)

\* C5: once mark_combination_completed has returned for a unit, the unit is
\* completed in every later state in which no ledger call is running, also
\* after a crash and the restart's load_status.
C5_ReturnedMarkIsDurable ==
    lPc = "idle" =>
        \A u \in lReturned : is_combination_completed(status, u.court, u.date)

\* the keys of the ledger a status holds
LedgerKeys(st) == Range(st.completed_combinations)

\* no key at two positions of completed_combinations
NoDuplicateKey(st) ==
    \A i, j \in 1..Len(st.completed_combinations) :
        i # j => st.completed_combinations[i] # st.completed_combinations[j]

\* C33 (checked under SpecLedger): completed_combinations never holds a key
\* twice, and the key of a unit whose mark_combination_completed has
\* returned, once in the ledger, is in the ledger after every step.
C33_KeyOnceAndNeverRemoved ==
    [][/\ NoDuplicateKey(status')
       /\ \A u \in lReturned :
              ComboStr(u.court, u.date) \in LedgerKeys(status)
                  => ComboStr(u.court, u.date) \in LedgerKeys(status')]_vars

\* the same for the ledger of a process that is not replaced by another:
\* every step but the restart
KeyOnceAndNeverRemovedInOneProcess ==
    [][LCrashRestart \/
       (/\ NoDuplicateKey(status')
        /\ LedgerKeys(status) \subseteq LedgerKeys(status'))]_vars

\* the same for passes whose every save_status writes the file (checked
\* under Spec): no step, the load_status of a new pass included, takes a
\* key out of the ledger
KeysKeptByPasses ==
    [][/\ NoDuplicateKey(status')
       /\ LedgerKeys(status) \subseteq LedgerKeys(status')]_vars

(***************************************************************************)
(* Claims about the fetch engine (checked under SpecFetch).                *)
(***************************************************************************)

\* a 2xx response that declares application/pdf and whose non-empty body
\* starts with %PDF
GoodPdf(r) == r.net = "ok" /\ r.ctype = "application/pdf" /\ r.body = "pdf"

\* the first n responses of the call were each rejected by download_pdf
AllNotGoodPdf(n) == \A i \in 1..n : ~GoodPdf(fResponses[i])

\* the first n responses of the call were each rejected by get_with_retry
AllNotOk(n) == \A i \in 1..n : ~StatusOk(fResponses[i])

\* C8: download_pdf never leaves a zero-byte or invalid file at its target
\* path: after a call that returned False no file written by that call is at
\* the path, and a later file-exists check never accepts an unvalidated file.
C8_NoUnvalidatedFileLeft ==
    /\ (fPc = "done" /\ fFunc = "download" /\ fResult = "False")
          => ~(fWrote /\ fFile # "absent")
    /\ fAccepted => fFile = "pdf"

\* C9: download_pdf returns True only for a response that declared
\* application/pdf and whose non-empty body starts with %PDF; every response
\* before it, a failed 2xx validation like a transport failure, used up exactly
\* one attempt of the one budget, and the call gives up with False only when
\* max_retries responses were each rejected.
C9_SuccessOnlyIfValidated ==
    fFunc = "download" =>
        /\ fResult = "True" =>
              /\ Len(fResponses) >= 1
              /\ GoodPdf(fResponses[Len(fResponses)])
              /\ AllNotGoodPdf(Len(fResponses) - 1)
              /\ fAttempt = Len(fResponses) - 1
        /\ fPc = "loop" =>
              /\ fAttempt = Len(fResponses)
              /\ AllNotGoodPdf(Len(fResponses))
        /\ fResult = "False" =>
              /\ Len(fResponses) = fMax
              /\ AllNotGoodPdf(fMax)

C9_Witness ==
    /\ fFunc = "download"
    /\ fResult = "True"
    /\ Len(fResponses) = 3
    /\ fResponses[1] = [net |-> "ok", ctype |-> "application/pdf", body |-> "garbage"]
    /\ fResponses[2] = [net |-> "ok", ctype |-> "text/html", body |-> "pdf"]

\* the requests of a call never exceed its budget, and a running call can
\* always take its next step
BudgetKept ==
    /\ Len(fResponses) <= fMax
    /\ fAttempt <= fMax
    /\ fPc = "loop" => ENABLED FetchStep

GetOutcome ==
    (fFunc = "get" /\ fPc = "done") =>
        /\ fResult = "response" =>
              /\ StatusOk(fResponses[Len(fResponses)])
              /\ AllNotOk(Len(fResponses) - 1)
        /\ fResult = "raised" =>
              /\ Len(fResponses) = fMax
              /\ AllNotOk(fMax)
              /\ fLastExc = fResponses[fMax]

DownloadOutcome ==
    (fFunc = "download" /\ fPc = "done") =>
        /\ fResult \in {"True", "False"}
        /\ fResult = "False" => Len(fResponses) = fMax

\* C10 as stated: each call issues at most max_retries requests and ends;
\* get_with_retry returns the first successful response or raises the last
\* transport error after exactly max_retries failed attempts; download_pdf
\* returns False after exactly max_retries failed attempts and never raises.
C10_AsStated ==
    /\ BudgetKept
    /\ GetOutcome
    /\ DownloadOutcome
    /\ (fFunc = "get" /\ fPc = "done") => fResult \in {"response", "raised"}

\* What the code does keep: the same for max_retries >= 1; with
\* max_retries = 0 get_with_retry issues no request and returns None.
BoundedRetryFromOne ==
    /\ BudgetKept
    /\ GetOutcome
    /\ DownloadOutcome
    /\ (fFunc = "get" /\ fPc = "done") =>
          IF fMax >= 1 THEN fResult \in {"response", "raised"}
          ELSE fResult = "None" /\ fResponses = <<>>

\* C11: a call that succeeds after k failed attempts has issued exactly k+1
\* requests; the delay slept after failed attempt i (0-based) is 2^i seconds,
\* so the delays never decrease; a call whose budget is exhausted has slept
\* max_retries - 1 times: nothing is slept after its final failed attempt.
C11_BackoffSchedule ==
    /\ \A i \in 1..Len(fDelays) : fDelays[i] = 2 ^ (i - 1)
    /\ \A i, j \in 1..Len(fDelays) : i <= j => fDelays[i] <= fDelays[j]
    /\ fResult \in {"response", "True"} =>
          /\ Len(fResponses) = Len(fDelays) + 1
          /\ IF fFunc = "get" THEN AllNotOk(Len(fDelays)) ELSE AllNotGoodPdf(Len(fDelays))
    /\ (fResult \in {"raised", "False"} /\ fMax >= 1) =>
          /\ Len(fResponses) = fMax
          /\ Len(fDelays) = fMax - 1

C11_Witness ==
    /\ fFunc = "get"
    /\ fResult = "response"
    /\ Len(fResponses) = 3
    /\ fDelays = <<1, 2>>

(***************************************************************************)
(* Claims about the ledger and the coordinator (checked under Spec).       *)
(***************************************************************************)

\* every unit of the range has an entry in the ledger the file holds
LedgerCovers(file) ==
    /\ file.state = "ok"
    /\ \A u \in Units :
          ComboStr(u.court, u.date) \in Range(file.content.completed_combinations)

\* The scraper's coordinator: a pass that starts with a ledger file holding
\* a non-error entry for every unit of the range makes no network request
\* and leaves the files as they were.
CoveredPassMakesNoRequest ==
    (cPass >= 2 /\ cMode # "daily" /\ LedgerCovers(cLedgerAtStart)) =>
        /\ cCalls = 0
        /\ files = cFilesAtStart
        /\ \A u \in Units : cVisit[u] \in {"none", "skipped"}

\* C1 (checked under SpecDaily): a second pass over the same range that
\* follows a pass in which every unit was fetched without error makes no
\* network request and leaves the files as the first pass left them.
C1_SecondPassNoRequests ==
    (cPc = "idle" /\ cPass >= 2 /\ \A u \in Range(DailyOrder) : cPrevVisit[u] = "fetched")
        => (cCalls = 0 /\ files = cFilesAtStart)

\* C2: a unit whose harvest ended in error is fetched again by the next
\* run_full_production, whatever was completed after it.
C2_ErrorUnitRetried ==
    (cPc = "idle" /\ cPass >= 2 /\ cMode = "production") =>
        \A u \in Units :
            (cPrevVisit[u] = "error" /\ ~is_combination_completed(status, u.court, u.date))
                => cVisit[u] \in {"error", "fetched"}

\* C3: a unit is skipped without a network call only when
\* is_combination_completed is true for it.
C3_SkipOnlyByLedger ==
    \A u \in Units :
        cVisit[u] = "skipped" => is_combination_completed(status, u.court, u.date)

C6_LedgeredOnlyIfFilesOnDisk ==
    \A u \in Units :
        is_combination_completed(status, u.court, u.date) =>
            \A row \in csvLog :
                (row.unit = u /\ row.cases > 0) => files[u] = "pdf"

(***************************************************************************)
(* Claims about the assembly under crashes (checked under SpecAsm).        *)
(***************************************************************************)

DistinctTempNames == Cardinality(TempNames(aLinks)) = Len(aLinks)

\* C7: after a call of process_case_opinions was cut short and the harvest
\* was run again, a file at final_filepath is a completely written artifact
\* and the opinions table has its row.
C7_CrashSafeAssembly ==
    (aPc = "done" /\ aCrashed /\ DistinctTempNames /\ aFinal.state # "absent") =>
        (aFinal.state = "complete" /\ aDb)

\* orderRank of the ordering policy, by the type get_abbreviation_and_justice
\* gave the link: primary 1, concurrence 2, dissent 3, unknown 4
OrderRank(abbrev) ==
    CASE abbrev \in {"mem", "op"} -> 1
      [] abbrev = "con" -> 2
      [] abbrev = "dis" -> 3
      [] OTHER -> 4

\* (orderRank(type), author or "") of the first opinion is not after that of
\* the second
PolicyOrdered(a, b) ==
    \/ OrderRank(aLinks[a.url].abbrev) < OrderRank(aLinks[b.url].abbrev)
    \/ /\ OrderRank(aLinks[a.url].abbrev) = OrderRank(aLinks[b.url].abbrev)
       /\ JusticeRank(a.justice_name) <= JusticeRank(b.justice_name)

\* C12: process_case_opinions fetches the fragments of a case in
\* non-decreasing order of (orderRank(type), author or ""): primary opinions,
\* then concurrences, then dissents, fragments of unknown type last.
C12_FetchedInPolicyOrder ==
    \A i, j \in 1..Len(aSorted) : i < j => PolicyOrdered(aSorted[i], aSorted[j])

\* the lists that hold the same links in another discovery order
PermutationsOf(links) ==
    {[i \in 1..Len(links) |-> links[f[i]]] :
        f \in {g \in [1..Len(links) -> 1..Len(links)] :
                 \A i, j \in 1..Len(links) : g[i] = g[j] => i = j}}

\* the links of a case in the order of its sorted opinions: the page order of
\* the artifact when every fragment is fetched
MergedLinks(links) ==
    LET sorted == SortedOpinions(Opinions(links))
    IN [i \in 1..Len(links) |-> links[sorted[i].url]]

\* the links whose pages the final file holds, in page order
PagesAsLinks == [i \in 1..Len(aFinal.pages) |-> aLinks[aFinal.pages[i]]]

\* no two opinions of the case have the same sort key
DistinctSortKeys(links) ==
    \A i, j \in 1..Len(links) :
        (/\ OpinionOf(links, i).sort_order = OpinionOf(links, j).sort_order
         /\ OpinionOf(links, i).justice_name = OpinionOf(links, j).justice_name) => i = j

\* the call produced the artifact from every fragment of the case
AllFragmentsMerged ==
    /\ aPc = "done"
    /\ aRet = 1
    /\ aFinal.state = "complete"
    /\ Len(aFinal.pages) = Len(aLinks)

ReturnedFromFreshCall == aPc = "done" /\ aAtStart.final.state = "absent"

\* position of the opinion with this url in sorted_opinions
SortedPos(url) == CHOOSE i \in 1..Len(aSorted) : aSorted[i].url = url

\* C15: when the final file did not exist, process_case_opinions produces the
\* artifact iff at least one download succeeded; the artifact holds exactly
\* the fetched fragments in sorted order and the call returns 1 with the
\* record saved; with no success there is no artifact, no record, and the
\* call returns 0.
C15_ArtifactOfFetchedFragments ==
    ReturnedFromFreshCall =>
        /\ \A i, j \in 1..Len(aFetched) :
              i < j => SortedPos(aFetched[i]) < SortedPos(aFetched[j])
        /\ IF aFetched # <<>>
           THEN /\ aFinal = [state |-> "complete", pages |-> aFetched]
                /\ aDb
                /\ aRet = 1
           ELSE /\ aFinal = NoFinal
                /\ aDb = aAtStart.db
                /\ aRet = 0

\* the same for a case whose links have pairwise different temp file names
ArtifactOfFetchedDistinctNames == DistinctTempNames => C15_ArtifactOfFetchedFragments

\* C16: after process_case_opinions returned having produced the artifact, no
\* temp file of the case is left in the date folder.
C16_NoTempFileLeft ==
    (aPc = "done" /\ aRet = 1 /\ ~aCrashed /\ DistinctTempNames) =>
        \A n \in DOMAIN aTemp : aTemp[n] = NoTemp

\* C17: when something is at final_filepath as the call begins, the call
\* makes no request, writes no file, saves no record and returns 0.
C17_ExistingArtifactShortCircuits ==
    aAtStart.final.state # "absent" =>
        /\ aCalls = 0
        /\ ~aWrote
        /\ DiskNow(aFinal, aDb) = aAtStart
        /\ (aPc = "done" => aRet = 0)
        /\ aPc \in {"start", "done"}

C17_Witness ==
    /\ aPc = "done"
    /\ aRuns = 2
    /\ aAtStart.final.state = "partial"
    /\ aRet = 0
    /\ Len(aLinks) = 2

\* C40: within one case distinct fragments have distinct temp file names, so
\* no download overwrites the temp file of another fragment and no
\* fragment's pages are merged into the artifact twice.
C40_DistinctFragmentsDistinctTemps ==
    /\ aPc # "start" =>
          \A i, j \in 1..Len(aLinks) :
              i # j => TempFilename(aLinks, i) # TempFilename(aLinks, j)
    /\ \A n \in DOMAIN aTemp :
          aTemp[n].state # "absent" =>
              Cardinality({i \in 1..Len(aFetched) :
                              TempFilename(aLinks, aFetched[i]) = n}) <= 1
    /\ \A i, j \in 1..Len(aFinal.pages) : i # j => aFinal.pages[i] # aFinal.pages[j]

\* for a case whose links have pairwise different temp file names, no
\* fragment's pages are in the artifact twice
NoPageTwiceWithDistinctNames ==
    DistinctTempNames =>
        \A i, j \in 1..Len(aFinal.pages) : i # j => aFinal.pages[i] # aFinal.pages[j]

\* scrape_court_date was called for the unit at position i of the pass
Visited(i) == cVisit[CurOrder[i]] \in {"error", "fetched", "skipped"}

\* C18: the failure of one unit never aborts the enumeration:
\* scrape_court_date never raises, and in a pass every unit after a failed
\* one is still visited.
C18_FailedUnitDoesNotAbort ==
    /\ cPc # "aborted"
    /\ (cPc = "idle" /\ cPass >= 1 /\ cMode # "daily") =>
          \A i, j \in 1..Len(CurOrder) :
              (i < j /\ cVisit[CurOrder[i]] = "error") => Visited(j)
    /\ (cPc = "running" /\ cPos <= Len(CurOrder)) => ENABLED CoordNext

C18_Witness ==
    /\ cPc = "idle"
    /\ cMode = "production"
    /\ \E i, j \in 1..Len(CurOrder) :
          /\ i < j
          /\ cVisit[CurOrder[i]] = "error"
          /\ cVisit[CurOrder[j]] = "fetched"

\* the calls of process_case_opinions that returned 1
ArtifactsMade == Cardinality({i \in 1..Len(uOutcomes) : uOutcomes[i].kind = "artifact"})

\* C19: the failure of one case (its assembly raised, or every fragment
\* failed) does not abort the unit: every other case is still processed
\* and the unit's counts are returned.
C19_FailedCaseDoesNotAbortUnit ==
    (uPc = "returned" /\ uRows # <<>>) =>
        /\ [i \in 1..Len(uOutcomes) |-> uOutcomes[i].case] = GroupByCase(uRows)
        /\ uRet = [cases |-> Len(uRows), files |-> ArtifactsMade]

C19_Witness ==
    /\ uPc = "returned"
    /\ Len(uOutcomes) = 3
    /\ uOutcomes[1].kind = "raised"
    /\ uOutcomes[2].kind = "failed"
    /\ uOutcomes[3].kind = "artifact"
    /\ uRet = [cases |-> 3, files |-> 1]

\* C32 (checked under SpecUnit): for each unit the recorded item count is
\* the number of case groups discovered and the recorded file count is the
\* number of artifacts made in the pass, one per case group.
C32_CountsOfUnit ==
    (uPc = "returned" /\ uRows # <<>>) =>
        /\ uRet.cases = Len(GroupByCase(uRows))
        /\ uRet.files = ArtifactsMade
        /\ ArtifactsMade <= Len(GroupByCase(uRows))

\* the same for a page that names every case in one row only
CountsOfUnitWithoutRepeatedCase ==
    (Len(GroupByCase(uRows)) = Len(uRows)) => C32_CountsOfUnit

\* (period, source) order: a comes before b
UnitBefore(a, b) == a.date < b.date \/ (a.date = b.date /\ a.court < b.court)

PointerUnit == [date |-> status.last_completed_date, court |-> status.last_completed_court]

\* the pointer designates the unit recorded last: the last key of
\* completed_combinations
PointerIsLastRecorded ==
    IF status.completed_combinations = <<>>
    THEN status.last_completed_date = None
    ELSE ComboStr(PointerUnit.court, PointerUnit.date)
             = status.completed_combinations[Len(status.completed_combinations)]

\* C34 (checked under Spec): after any sequence of passes of
\* run_full_production and run_development_test the resume pointer
\* designates the unit recorded last, and that unit is the greatest in
\* (period, source) order of the units with a non-error ledger entry.
C34_PointerIsGreatestCompleted ==
    /\ PointerIsLastRecorded
    /\ \A u \in Units :
           is_combination_completed(status, u.court, u.date)
               => (u = PointerUnit \/ UnitBefore(u, PointerUnit))

\* the weekdays of the range and of the days that follow it, with every court
OrderedUnits == {u \in [date : 1..(MaxEnumDays + 3), court : Courts] : ~IsWeekend(u.date)}

\* the unit that comes next after u in (period, source) order: the least of
\* the units after u
ImmediateSuccessor(u) ==
    CHOOSE s \in OrderedUnits :
        /\ UnitBefore(u, s)
        /\ \A t \in OrderedUnits : UnitBefore(u, t) => ~UnitBefore(t, s)

FirstRow(case) == CHOOSE i \in 1..Len(uRows) :
                      uRows[i] = case /\ \A k \in 1..(i - 1) : uRows[k] # case

\* the cases of a page are processed in the order the page first names them
CasesInDiscoveryOrder ==
    \A i, j \in 1..Len(uOutcomes) :
        i < j => FirstRow(uOutcomes[i].case) < FirstRow(uOutcomes[j].case)

\* the fragments of a case are fetched in the order of sorted_opinions
FragmentsInSortedOrder ==
    \A i, j \in 1..Len(aFetched) :
        i < j => SortedPos(aFetched[i]) < SortedPos(aFetched[j])

(***************************************************************************)
(* Claims about the daily run (SpecRun).                                   *)
(***************************************************************************)

TerminalStatuses == {"completed", "no_cases", "failed", "scrape_failed", "email_failed"}

\* the call has returned (the process did not stop inside it)
RunReturned == rPc = "idle" /\ rRet \in {"True", "False", "None"}

\* no phase's work raised in the call; a refused mail is not an exception
NoPhaseError == rFailed \in {"none", "notify"}

PhaseRank(phase) ==
    CASE phase = "harvest" -> 1
      [] phase = "process" -> 2
      [] phase = "report"  -> 3
      [] OTHER             -> 4

\* the phase a persisted status stands for; a status a call ends in stands
\* after every phase
StatusRank(st) ==
    CASE st \in {"none", "running", "resuming"}  -> 0
      [] st \in {"scraping", "scrape_completed"} -> 1
      [] st = "analyzing"                         -> 2
      [] st = "reporting"                         -> 3
      [] st = "emailing"                          -> 4
      [] OTHER                                    -> 5

ForwardRank(st) ==
    CASE st = "running"          -> 0
      [] st = "scraping"         -> 1
      [] st = "scrape_completed" -> 2
      [] st = "analyzing"        -> 3
      [] st = "reporting"        -> 4
      [] st = "emailing"         -> 5
      [] OTHER                   -> 6

\* C22: a run started by run_daily_automation persists its statuses only
\* forward in the order running, scraping, analyzing, reporting, emailing,
\* and when it returns the row is in a terminal status.
C22_FreshRunMovesForward ==
    rCall = "fresh" =>
        /\ \A i, j \in 1..Len(rTrail) :
              i < j => \/ ForwardRank(rTrail[i]) < ForwardRank(rTrail[j])
                       \/ {rTrail[i], rTrail[j]} \subseteq TerminalStatuses
        /\ \A i \in 1..Len(rTrail) :
              rTrail[i] \in TerminalStatuses \cup
                  {"running", "scraping", "scrape_completed", "analyzing", "reporting",
                   "emailing"}
        /\ RunReturned => rStatus \in TerminalStatuses /\ rRet # "None"

C22_Witness ==
    /\ rCall = "fresh"
    /\ RunReturned
    /\ rTrail = <<"running", "scraping", "scrape_completed", "analyzing", "reporting",
                  "emailing", "completed">>

\* C23: resuming a row persisted at running or scraping restarts the
\* harvest and then goes on with the analysis, the report and the mail.
C23_ResumeRestartsHarvest ==
    (rCall = "resume" /\ rFrom \in {"running", "scraping"} /\ RunReturned /\ NoPhaseError) =>
        /\ rWorks # <<>>
        /\ rWorks[1] = "harvest"
        /\ \A i, j \in 1..Len(rWorks) : i < j => PhaseRank(rWorks[i]) < PhaseRank(rWorks[j])
        /\ "process" \in Range(rWorks) <=> (rAnalysisOn /\ rExpected # {})
        /\ "report" \in Range(rWorks)
        /\ "notify" \in Range(rWorks) <=> (rReportOut = "path" /\ rEmailOn)

C23_Witness ==
    /\ rCall = "resume"
    /\ rFrom = "scraping"
    /\ RunReturned
    /\ rWorks = <<"harvest", "process", "report", "notify">>
    /\ rStatus = "completed"

\* C24: resuming a row persisted at analyzing harvests nothing and hands to
\* the analysis exactly the opinions of the target date that have no
\* analysis record.
C24_ResumeAtProcessing ==
    (/\ rCall = "resume"
     /\ rFrom = "analyzing"
     /\ RunReturned
     /\ NoPhaseError
     /\ rAnalysisOn
     /\ rClient) =>
        /\ "harvest" \notin Range(rWorks)
        /\ rHanded = rExpected

\* C25: resuming a row persisted at reporting or at a later phase repeats
\* the report and attempts the mail again.
C25_ResumeRepeatsReport ==
    (rCall = "resume" /\ rFrom \in {"reporting", "emailing"} /\ RunReturned /\ NoPhaseError) =>
        /\ "report" \in Range(rWorks)
        /\ (rReportOut = "path" /\ rEmailOn) => "notify" \in Range(rWorks)

\* the phase a failed status names
FailedPhaseOf(st) ==
    CASE st = "scrape_failed" -> "harvest"
      [] st = "email_failed"  -> "notify"
      [] OTHER                -> "none"

\* C26: an error in a phase leaves the row in that phase's own failed
\* status with an error message, and the call returns False.
C26_FailedStatusOfThePhase ==
    (RunReturned /\ rFailed # "none") =>
        /\ rRet = "False"
        /\ rError # ""
        /\ FailedPhaseOf(rStatus) = rFailed

\* C27: every call of resume_incomplete_run returns with the row in a
\* terminal status, whatever the status it found.
C27_ResumeEndsTerminal ==
    (rCall = "resume" /\ RunReturned) => rStatus \in TerminalStatuses

\* C28: when generate_daily_report yields no report the run ends in
\* no_cases, in a fresh run and in a resumed run.
C28_NoReportEndsNoCases ==
    (RunReturned /\ rReportOut = "none") => rStatus = "no_cases"

\* C29: a failed notification ends the run in email_failed with an error
\* message and the call returns False; it never raises out of
\* send_email_report.
C29_MailFailureEndsEmailFailed ==
    rFailed = "notify" =>
        /\ rPc # "except"
        /\ RunReturned => (rStatus = "email_failed" /\ rError # "" /\ rRet = "False")

C29_Witness ==
    /\ rCall = "resume"
    /\ RunReturned
    /\ rFailed = "notify"
    /\ rStatus = "email_failed"

\* C30: repeating the report for the same date never adds a report file:
\* the date has at most one report file.
C30_OneReportPerPeriod == Cardinality(rReportFiles) <= 1

\* the same for a database whose opinions table has the column
\* consolidated_with
ResumeRestartsHarvestWithColumn == rColumn => C23_ResumeRestartsHarvest

\* the statuses a run can be in when the process stops inside it
NonTerminalStatuses ==
    {"running", "scraping", "scrape_completed", "analyzing", "reporting", "emailing",
     "resuming"}

\* C31: every row a crash left in a non-terminal status is returned by
\* find_incomplete_runs for its target date, so the next
\* run_daily_automation for that date resumes it and inserts no new row.
C31_CrashedRunIsResumed ==
    /\ (rPc = "idle" /\ rExists /\ rRet = "crashed" /\ rStatus \in NonTerminalStatuses) =>
          rStatus \in IncompleteStatuses
    /\ rLeft \notin NonTerminalStatuses

\* C36: on a database initialised only by init_database,
\* get_unanalyzed_opinions_for_date returns without error the opinions of
\* the date that have no analysis record.
C36_QueryOnInitialisedStore ==
    (~rColumn /\ rQuery # "-") =>
        /\ rQuery = "rows"
        /\ rPc # "except"

\* the terminal statuses of a run
FinalStatuses == {"completed", "no_cases", "failed", "email_failed"}

\* C38: a row in a terminal status is never modified again, not even by
\* resume_incomplete_run called with its id.
C38_TerminalRowIsFinal ==
    (rCall = "resume" /\ rFrom \in FinalStatuses) => rStatus = rFrom

\* C39 (checked under SpecDaily): the counters persisted in the run's row
\* (courts checked, cases found, files downloaded) never decrease during
\* the life of the run, a crash and a resume of the harvest included.
C39_CountersNeverDecrease ==
    /\ dRow.courts >= dHigh.courts
    /\ dRow.cases >= dHigh.cases
    /\ dRow.files >= dHigh.files

\* the counters of the row never decrease in a run whose harvest was not
\* cut short and resumed
CountersOfUncutRun == (cPass = 1) => C39_CountersNeverDecrease

(***************************************************************************)
(* Claims about the classification (checked under SpecClassify).           *)
(***************************************************************************)

\* the type the description priority rule gives: memorandum, else
\* dissenting, else concurring, else opinion, else unknown ("")
PriorityType(description) ==
    LET d == LowerAll(description) IN
    IF Has(d, "memorandum") THEN "mem"
    ELSE IF Has(d, "dissenting") THEN "dis"
    ELSE IF Has(d, "concurring") THEN "con"
    ELSE IF Has(d, "opinion") THEN "op"
    ELSE ""

\* C14: for every description and disposition the type returned is the one
\* the description priority rule gives; the disposition never overrides a
\* type that the description determines.
C14_TypeByDescriptionPriority ==
    (kPc = "done" /\ PriorityType(kDesc) # "") => kResult.abbrev = PriorityType(kDesc)

(***************************************************************************)
(* Claims about the analysis batch (checked under SpecBatch).              *)
(***************************************************************************)

====
